---- MODULE Spec2Model ----
(***************************************************************************)
(* ThornOS kernel: virtual-memory core (address primitives, page-table     *)
(* entries, the 4-level walker/mapper, the boot-info frame allocator, the  *)
(* heap bootstrap) and the process table skeleton.                         *)
(*                                                                         *)
(* A u64 is a tuple of four 16-bit limbs, least significant first, so that *)
(* shifts, masks, narrowing casts and additions are computed at their real *)
(* width: <<w0, w1, w2, w3>> stands for w0 + 2^16*w1 + 2^32*w2 + 2^48*w3.  *)
(***************************************************************************)
EXTENDS Integers, Sequences, FiniteSets, TLC

\* ------------------------------------------------------------------------
\* 64-bit words
\* ------------------------------------------------------------------------

\* F applied to the value of x, with x evaluated once (let x = ...; F(x)).
With(x, F(_)) == CHOOSE r \in {F(v) : v \in {x}} : TRUE

\* 1 << n, for 0 <= n <= 16
Pow2(n) == <<1, 2, 4, 8, 16, 32, 64, 128, 256, 512, 1024, 2048, 4096, 8192, 16384,
             32768, 65536>>[n + 1]

\* one more than the largest 16-bit limb
LimbBase == Pow2(16)

U64(w0, w1, w2, w3) == <<w0, w1, w2, w3>>

ZeroWord == U64(0, 0, 0, 0)

\* A natural below 2^31 as a u64.
FromNat(n) == U64(n % LimbBase, n \div LimbBase, 0, 0)

FitsNat(w) == w[3] = 0 /\ w[4] = 0 /\ w[2] < 32768

\* The value of a u64 that is below 2^31.
ToNat(w) == w[1] + LimbBase * w[2]

Bit(x, i) == (x \div Pow2(i)) % 2

\* a & b and a | b on the hexadecimal digits, bit by bit
AndDigit ==
    [a \in 0..15, b \in 0..15 |->
        Bit(a, 0) * Bit(b, 0) + 2 * (Bit(a, 1) * Bit(b, 1))
        + 4 * (Bit(a, 2) * Bit(b, 2)) + 8 * (Bit(a, 3) * Bit(b, 3))]

OrDigit == [a \in 0..15, b \in 0..15 |-> a + b - AndDigit[a, b]]

Digit(x, k) == (x \div Pow2(4 * k)) % 16

\* a & b and a | b on 16-bit limbs
And16(a, b) ==
    IF a = 0 \/ b = 0 THEN 0
    ELSE IF b = 65535 THEN a
    ELSE AndDigit[Digit(a, 0), Digit(b, 0)] + 16 * AndDigit[Digit(a, 1), Digit(b, 1)]
         + 256 * AndDigit[Digit(a, 2), Digit(b, 2)] + 4096 * AndDigit[Digit(a, 3), Digit(b, 3)]

Or16(a, b) ==
    IF a = 0 THEN b
    ELSE IF b = 0 THEN a
    ELSE OrDigit[Digit(a, 0), Digit(b, 0)] + 16 * OrDigit[Digit(a, 1), Digit(b, 1)]
         + 256 * OrDigit[Digit(a, 2), Digit(b, 2)] + 4096 * OrDigit[Digit(a, 3), Digit(b, 3)]

\* a & b and a | b on u64
WAnd(a, b) == <<And16(a[1], b[1]), And16(a[2], b[2]), And16(a[3], b[3]), And16(a[4], b[4])>>

WOr(a, b) == <<Or16(a[1], b[1]), Or16(a[2], b[2]), Or16(a[3], b[3]), Or16(a[4], b[4])>>

\* a + b on u64: the sum modulo 2^64 and whether it overflowed
Carry(a, b, i) ==
    LET c1 == (a[1] + b[1]) \div LimbBase
        c2 == (a[2] + b[2] + c1) \div LimbBase
        c3 == (a[3] + b[3] + c2) \div LimbBase
        c4 == (a[4] + b[4] + c3) \div LimbBase
    IN  <<0, c1, c2, c3, c4>>[i]

WAdd(a, b) == [i \in 1..4 |-> (a[i] + b[i] + Carry(a, b, i)) % LimbBase]

\* a < b on u64 (derived Ord of a u64 newtype)
WLess(a, b) ==
    \E i \in 1..4 : a[i] < b[i] /\ \A j \in (i + 1)..4 : a[j] = b[j]

\* (a >> s) as u16, for 0 <= s < 64
ShrU16(a, s) ==
    LET q == s \div 16
        r == s % 16
        lo == a[q + 1] \div Pow2(r)
        hi == IF q + 2 <= 4 THEN (a[q + 2] % Pow2(r)) * Pow2(16 - r) ELSE 0
    IN  lo + hi

\* ------------------------------------------------------------------------
\* virt_addr.rs, paging.rs: address primitives
\* ------------------------------------------------------------------------

PageOffset_new_truncate(offset) == offset % 4096

PageTableIndex_new_truncate(index) == index % 512

\* align_down with the mask 0xFFFF_F000
align_down_u32(addr) == WAnd(addr, U64(61440, 65535, 0, 0))

align_down(addr) == WAnd(addr, U64(61440, 65535, 65535, 65535))

page_offset(addr) == PageOffset_new_truncate(addr[1])

\* page_table_index with `as u8` in place of `as u16`
page_table_index_u8(addr, level) ==
    PageTableIndex_new_truncate(ShrU16(addr, 12 + level * 9) % 256)

page_table_index(addr, level) ==
    PageTableIndex_new_truncate(ShrU16(addr, 12 + level * 9))

None == [tag |-> "None"]

Some(v) == [tag |-> "Some", val |-> v]

Panic == [tag |-> "Panic"]

\* impl Add<u64> for VirtAddr
VirtAddr_add(addr, rhs) == WAdd(addr, rhs)

Page_containing_address(addr) == align_down(addr)

\* 4096 * rhs with the bits that pass from one 16-bit quarter to the next lost
Mul4096_drops_carry(rhs) == [i \in 1..4 |-> (rhs[i] % 16) * 4096]

\* 4096 * rhs on u64: the product modulo 2^64
Mul4096(rhs) ==
    [i \in 1..4 |-> (rhs[i] % 16) * 4096 + (IF i = 1 THEN 0 ELSE rhs[i - 1] \div 16)]

\* 4096 * rhs or self.0 + 4096 * rhs leaves u64: a build with overflow
\* checks panics there, a build without them goes on with the wrapped value
Page_add_overflows(page, rhs) ==
    \/ rhs[4] \div 16 > 0
    \/ Carry(page, Mul4096(rhs), 5) > 0

\* impl Add<u64> for Page, the page count rhs a u64
Page_add(page, rhs) == Page_containing_address(VirtAddr_add(page, Mul4096(rhs)))

PageRangeInclusive_new(start, end) == [start |-> start, end |-> end]

\* PageRangeInclusive::next with `<=` in the place of `<`
PageRangeInclusive_next_inclusive(self) ==
    IF ~WLess(self.end, self.start)
    THEN [self |-> [self EXCEPT !.start = Page_add(self.start, FromNat(1))],
          ret |-> Some(self.start)]
    ELSE [self |-> self, ret |-> None]

\* PageRangeInclusive::next: the range after the call, and the item returned
PageRangeInclusive_next(self) ==
    IF WLess(self.start, self.end)
    THEN [self |-> [self EXCEPT !.start = Page_add(self.start, FromNat(1))],
          ret |-> Some(self.start)]
    ELSE [self |-> self, ret |-> None]

\* PageRangeInclusive as the sequence of pages its iterator yields.  The
\* fuel argument bounds the recursion; callers pass more than the length.
RECURSIVE PageRange(_, _, _)
PageRange(start, end, fuel) ==
    IF fuel > 0 /\ PageRangeInclusive_next(PageRangeInclusive_new(start, end)).ret # None
    THEN <<start>>
         \o PageRange(PageRangeInclusive_next(PageRangeInclusive_new(start, end)).self.start,
                      end, fuel - 1)
    ELSE <<>>

\* ------------------------------------------------------------------------
\* paging.rs: page-table entries
\* ------------------------------------------------------------------------

PRESENT == U64(1, 0, 0, 0)
WRITABLE == U64(2, 0, 0, 0)
HUGE_PAGE == U64(128, 0, 0, 0)
NO_EXECUTE == U64(0, 0, 0, 32768)

\* every bit the bitflags struct names (bits 0..8 and 63)
AllFlags == U64(511, 0, 0, 32768)

\* PageTableEntryFlags::contains: every bit of flag is set in flags
Contains(flags, flag) == WAnd(flags, flag) = flag

\* A physical frame: its size class and its start address.
PhysFrame(size, start) == [size |-> size, start |-> start]

FrameMask(size) ==
    CASE size = "4K" -> U64(61440, 65535, 65535, 65535)
      [] size = "2M" -> U64(0, 65504, 65535, 65535)
      [] size = "1G" -> U64(0, 49152, 65535, 65535)

PhysFrame_containing_address(size, addr) == PhysFrame(size, WAnd(addr, FrameMask(size)))

PageTableEntry_new(frame, flags) == WOr(frame.start, flags)

PageTableEntry_new_zero == ZeroWord

\* addr with the mask 0xFFFF_FFFF_FFFF_F000
PageTableEntry_addr_keeps_high(entry) == WAnd(entry, U64(61440, 65535, 65535, 65535))

PageTableEntry_addr(entry) == WAnd(entry, U64(61440, 65535, 65535, 15))

PageTableEntry_flags(entry) == WAnd(entry, AllFlags)

\* frame without the test of PRESENT (lines 114-116)
PageTableEntry_frame_ignores_present(entry, level) ==
    IF Contains(PageTableEntry_flags(entry), HUGE_PAGE)
    THEN CASE level = 1 ->
                Some(PhysFrame_containing_address("1G", PageTableEntry_addr(entry)))
           [] level = 2 ->
                Some(PhysFrame_containing_address("2M", PageTableEntry_addr(entry)))
           [] OTHER -> Panic
    ELSE Some(PhysFrame_containing_address("4K", PageTableEntry_addr(entry)))

\* PageTableEntry::frame: None, Some(Phys) or a panic
PageTableEntry_frame(entry, level) ==
    IF ~Contains(PageTableEntry_flags(entry), PRESENT) THEN None
    ELSE IF Contains(PageTableEntry_flags(entry), HUGE_PAGE)
         THEN CASE level = 1 ->
                     Some(PhysFrame_containing_address("1G", PageTableEntry_addr(entry)))
                [] level = 2 ->
                     Some(PhysFrame_containing_address("2M", PageTableEntry_addr(entry)))
                [] OTHER -> Panic
         ELSE Some(PhysFrame_containing_address("4K", PageTableEntry_addr(entry)))

\* ------------------------------------------------------------------------
\* Physical memory.  Every 4 KiB frame of RAM is viewed as a page table:
\* a function from the indices of its non-zero entries to those entries.
\* ------------------------------------------------------------------------

PAGE_TABLE_SIZE == 512

\* number of 4 KiB frames of RAM the model holds
NumFrames == 192

RAM == 0..(NumFrames - 1)

\* PageTable::new(): every entry PageTableEntry::new_zero()
PageTable_new == [i \in {} |-> PageTableEntry_new_zero]

ReadEntry(m, table, index) ==
    IF index \in DOMAIN m[table] THEN m[table][index] ELSE PageTableEntry_new_zero

WriteEntry(m, table, index, entry) ==
    [m EXCEPT ![table] =
        IF entry = PageTableEntry_new_zero
        THEN [i \in (DOMAIN @) \ {index} |-> @[i]]
        ELSE [i \in (DOMAIN @) \cup {index} |-> IF i = index THEN entry ELSE @[i]]]

Frame4K(n) == PhysFrame("4K", FromNat(n * 4096))

InRAM(frame) == FitsNat(frame.start) /\ (ToNat(frame.start) \div 4096) \in RAM

FrameNo(frame) == ToNat(frame.start) \div 4096

Fault == [tag |-> "Fault"]

\* load_table that goes on with the offset 0 before memory::init
load_table_offset_zero(offset, frame) ==
    IF ~InRAM(frame) THEN Fault ELSE Some(FrameNo(frame))

\* PageTable::load_table / load_mut_table: get_offset() panics before
\* memory::init; the reference is to the frame's contents (the loader maps
\* all of RAM linearly at the offset); outside RAM the access faults.
load_table(offset, frame) ==
    IF offset = None THEN Panic
    ELSE IF ~InRAM(frame) THEN Fault
    ELSE Some(FrameNo(frame))

\* ------------------------------------------------------------------------
\* pagetable.rs: PageTable::translate_addr
\* ------------------------------------------------------------------------

\* The loop of translate_addr from `table` at `level` down: `frame` is the
\* value of the local `frame` when the loop ends (Some), or None, Panic or
\* Fault; `reads` lists the slots <<table, index>> read by `table[index]`,
\* in order, after those of `reads`.
RECURSIVE WalkLoop(_, _, _, _, _, _)
WalkLoop(m, offset, table, addr, level, reads) ==
    LET index == page_table_index(addr, level)
        entry == ReadEntry(m, table, index)
        read == Append(reads, <<table, index>>)
    IN  With(PageTableEntry_frame(entry, level), LAMBDA fr :
          CASE fr.tag = "None" -> [frame |-> None, reads |-> read]
            [] fr.tag = "Panic" -> [frame |-> Panic, reads |-> read]
            [] fr.tag = "Some" /\ fr.val.size # "4K" -> [frame |-> fr, reads |-> read]
            [] OTHER ->
                  With(load_table(offset, fr.val), LAMBDA next :
                    IF next = Panic THEN [frame |-> Panic, reads |-> read]
                    ELSE IF level = 0 THEN [frame |-> fr, reads |-> read]
                    ELSE IF next = Fault THEN [frame |-> Fault, reads |-> read]
                    ELSE WalkLoop(m, offset, next.val, addr, level - 1, read)))

\* the value of the local `frame` when the loop ends
Walk(m, offset, table, addr, level) == WalkLoop(m, offset, table, addr, level, <<>>).frame

\* line 78: Some(frame.start_address() + u64::from(addr.page_offset()))
translate_addr(m, offset, self, addr) ==
    With(Walk(m, offset, self, addr, 3), LAMBDA fr :
      IF fr.tag = "Some" THEN Some(WAdd(fr.val.start, FromNat(page_offset(addr)))) ELSE fr)

\* ------------------------------------------------------------------------
\* memory.rs: the module-level translate_addr
\* ------------------------------------------------------------------------

\* memory.rs get_offset: the stored offset, or a panic before memory::init
get_offset(offset) == IF offset = None THEN Panic ELSE Some(offset.val)

\* The frame the CR3 register names (set by the boot loader).
Cr3_read == Frame4K(1)

\* memory.rs load_table: get_offset() panics before memory::init; outside
\* RAM the access to the table faults
memory_load_table(offset, frame) ==
    IF get_offset(offset) = Panic THEN Panic
    ELSE IF ~InRAM(frame) THEN Fault
    ELSE Some(FrameNo(frame))

\* The loop of memory.rs translate_addr from `level` down, the local `frame`
\* holding the frame of the table to load: the value of `frame` when the
\* loop ends (Some), or None, Panic or Fault.
RECURSIVE MemoryWalk(_, _, _, _, _)
MemoryWalk(m, offset, frame, addr, level) ==
    With(memory_load_table(offset, frame), LAMBDA table :
      IF table.tag # "Some" THEN table
      ELSE With(PageTableEntry_frame(ReadEntry(m, table.val, page_table_index(addr, level)),
                                     level), LAMBDA fr :
             CASE fr.tag = "None" -> None
               [] fr.tag = "Panic" -> Panic
               [] fr.tag = "Some" /\ fr.val.size # "4K" -> fr
               [] OTHER -> IF level = 0 THEN fr
                           ELSE MemoryWalk(m, offset, fr.val, addr, level - 1)))

\* memory.rs translate_addr without `+ u64::from(addr.page_offset())`
memory_translate_addr_frame_start(m, offset, addr) ==
    With(MemoryWalk(m, offset, Cr3_read, addr, 3), LAMBDA fr :
      IF fr.tag = "Some" THEN Some(fr.val.start) ELSE fr)

\* memory.rs translate_addr: the walk from the frame in CR3, and line 44
memory_translate_addr(m, offset, addr) ==
    With(MemoryWalk(m, offset, Cr3_read, addr, 3), LAMBDA fr :
      IF fr.tag = "Some" THEN Some(WAdd(fr.val.start, FromNat(page_offset(addr)))) ELSE fr)

\* ------------------------------------------------------------------------
\* allocator.rs: the frame allocators
\* ------------------------------------------------------------------------

\* A memory-map region: frames [start_frame, end_frame) and whether its
\* type is MemoryRegionType::Usable.
Region(s, e, u) == [start_frame |-> s, end_frame |-> e, usable |-> u]

\* (r.range.start_addr()..r.range.end_addr()).step_by(4096) of one region
RegionAddrs(r) ==
    LET n == IF r.end_frame > r.start_frame THEN r.end_frame - r.start_frame ELSE 0
    IN  [k \in 1..n |-> r.start_frame * 4096 + (k - 1) * 4096]

\* the addresses of the Usable regions, in region order (filter, map,
\* flat_map of usable_frames)
RECURSIVE UsableAddrs(_)
UsableAddrs(memory_map) ==
    IF memory_map = <<>> THEN <<>>
    ELSE (IF Head(memory_map).usable THEN RegionAddrs(Head(memory_map)) ELSE <<>>)
         \o With(Tail(memory_map), LAMBDA rest : UsableAddrs(rest))

\* usable_frames without `filter(|r| r.region_type == Usable)`
RECURSIVE AllAddrs(_)
AllAddrs(memory_map) ==
    IF memory_map = <<>> THEN <<>>
    ELSE RegionAddrs(Head(memory_map))
         \o With(Tail(memory_map), LAMBDA rest : AllAddrs(rest))

usable_frames_unfiltered(memory_map) ==
    LET addrs == AllAddrs(memory_map)
    IN  [k \in 1..Len(addrs) |-> PhysFrame_containing_address("4K", FromNat(addrs[k]))]

\* BootInfoAllocator::usable_frames: the iterator, as the sequence of the
\* frames it yields
usable_frames(memory_map) ==
    LET addrs == UsableAddrs(memory_map)
    IN  [k \in 1..Len(addrs) |-> PhysFrame_containing_address("4K", FromNat(addrs[k]))]

\* an iterator that starts over when it runs out
Nth_wraps(seq, n) == IF seq = <<>> THEN None ELSE Some(seq[(n % Len(seq)) + 1])

\* Iterator::nth
Nth(seq, n) == IF n + 1 \in DOMAIN seq THEN Some(seq[n + 1]) ELSE None

\* BootInfoAllocator::init
BootInfoAllocator_init(memory_map) ==
    [kind |-> "BootInfoAllocator", memory_map |-> memory_map, next |-> 0]

ZeroAllocator == [kind |-> "ZeroAllocator"]

\* allocate without `self.next += 1`
allocate_keeps_next(a) ==
    IF a.kind = "ZeroAllocator" THEN [frame |-> None, alloc |-> a]
    ELSE [frame |-> Nth(usable_frames(a.memory_map), a.next), alloc |-> a]

\* FrameAllocator::allocate: the frame returned and the allocator afterwards
allocate(a) ==
    IF a.kind = "ZeroAllocator" THEN [frame |-> None, alloc |-> a]
    ELSE [frame |-> Nth(usable_frames(a.memory_map), a.next),
          alloc |-> [a EXCEPT !.next = @ + 1]]

\* ------------------------------------------------------------------------
\* pagetable.rs: PageTable::map_page
\* ------------------------------------------------------------------------

Uninit == [tag |-> "Uninit"]

\* The state of map_page_inner between loop iterations: the locals `table`
\* and `frame`, memory, the allocator, the outcome ("running" until the
\* function returns), and a log of the writes and allocations made.
MapStart(m, self, a) ==
    [table |-> self, frame |-> Uninit, mem |-> m, alloc |-> a,
     ret |-> "running", log |-> <<>>]

\* whether every entry of the frame's table is zero
IsZeroTable(m, frame) ==
    InRAM(frame) /\ DOMAIN m[FrameNo(frame)] \cap (0..(PAGE_TABLE_SIZE - 1)) = {}

\* lines 136-153 without `None => return Err(PageMapError::FrameAllocation)`:
\* the loop goes on with the same table
MapAllocate_goes_on(s, offset, index, level) ==
    IF level = 0 THEN s
    ELSE With(allocate(s.alloc), LAMBDA r :
           IF r.frame = None
           THEN [s EXCEPT !.alloc = r.alloc,
                          !.log = Append(@, [ev |-> "alloc_failed", level |-> level,
                                             table |-> s.table])]
           ELSE With(PageTableEntry_new(r.frame.val, WOr(PRESENT, WRITABLE)), LAMBDA entry :
                  LET f == r.frame.val
                      t == load_table(offset, f)
                  IN  [s EXCEPT !.alloc = r.alloc,
                                !.mem = WriteEntry(s.mem, s.table, index, entry),
                                !.frame = f,
                                !.table = IF t.tag = "Some" THEN t.val ELSE @,
                                !.ret = IF t.tag = "Some" THEN "running" ELSE t.tag,
                                !.log = Append(@, [ev |-> "link", level |-> level,
                                                   table |-> s.table, index |-> index,
                                                   entry |-> entry, frame |-> f,
                                                   zero |-> IsZeroTable(s.mem, f)])]))

\* lines 136-153: the entry is not present
MapAllocate(s, offset, index, level) ==
    IF level = 0 THEN s
    ELSE With(allocate(s.alloc), LAMBDA r :
           IF r.frame = None
           THEN [s EXCEPT !.alloc = r.alloc, !.ret = "FrameAllocation",
                          !.log = Append(@, [ev |-> "alloc_failed", level |-> level,
                                             table |-> s.table])]
           ELSE With(PageTableEntry_new(r.frame.val, WOr(PRESENT, WRITABLE)), LAMBDA entry :
                  LET f == r.frame.val
                      m2 == WriteEntry(s.mem, s.table, index, entry)
                      t == load_table(offset, f)
                      linked == [ev |-> "link", level |-> level, table |-> s.table,
                                 index |-> index, entry |-> entry, frame |-> f,
                                 zero |-> IsZeroTable(s.mem, f)]
                  IN  [s EXCEPT !.alloc = r.alloc, !.mem = m2, !.frame = f,
                                !.table = IF t.tag = "Some" THEN t.val ELSE @,
                                !.ret = IF t.tag = "Some" THEN "running" ELSE t.tag,
                                !.log = Append(@, linked)]))

\* lines 119-130: the entry decodes to a huge frame
MapHuge(s, addr, new_entry, level) ==
    LET index == page_table_index(addr, level)
    IN  IF Contains(PageTableEntry_flags(ReadEntry(s.mem, s.table, index)), PRESENT)
        THEN [s EXCEPT !.ret = "PageAlreadyMapped"]
        ELSE [s EXCEPT !.mem = WriteEntry(s.mem, s.table, index, new_entry),
                       !.ret = "Ok",
                       !.log = Append(@, [ev |-> "install", level |-> level,
                                          table |-> s.table, index |-> index,
                                          entry |-> new_entry])]

\* lines 131-134: the entry decodes to a 4 KiB frame f.  `table` is loaded
\* from the local `frame` BEFORE `frame = f`: from the frame of the
\* previous iteration, or, when no iteration has assigned it yet, from an
\* uninitialized local, whose value `u` is any frame.
MapDescend(s, offset, f, u, level) ==
    LET stale == IF s.frame = Uninit THEN u ELSE s.frame
        t == load_table(offset, stale)
    IN  [s EXCEPT !.frame = f,
                  !.table = IF t.tag = "Some" THEN t.val ELSE @,
                  !.ret = IF t.tag = "Some" THEN "running" ELSE t.tag,
                  !.log = Append(@, [ev |-> "descend", level |-> level, table |-> s.table,
                                     entry_frame |-> f,
                                     loaded |-> stale,
                                     uninit |-> (s.frame = Uninit)])]

\* one iteration of `for i in 0..4` (lines 113-155), level = 3 - i
MapLevel(s, offset, addr, new_entry, level, u) ==
    IF s.ret # "running" THEN s
    ELSE LET index == page_table_index(addr, level)
             entry == ReadEntry(s.mem, s.table, index)
         IN  With(PageTableEntry_frame(entry, level), LAMBDA fr :
               CASE fr.tag = "Panic" -> [s EXCEPT !.ret = "Panic"]
                 [] fr.tag = "None" -> MapAllocate(s, offset, index, level)
                 [] fr.tag = "Some" /\ fr.val.size # "4K" -> MapHuge(s, addr, new_entry, level)
                 [] OTHER -> MapDescend(s, offset, fr.val, u, level))

\* lines 157-165: the leaf slot
MapLeaf(s, addr, new_entry) ==
    IF s.ret # "running" THEN s
    ELSE LET index == page_table_index(addr, 0)
         IN  IF Contains(PageTableEntry_flags(ReadEntry(s.mem, s.table, index)), PRESENT)
             THEN [s EXCEPT !.ret = "PageAlreadyMapped"]
             ELSE [s EXCEPT !.mem = WriteEntry(s.mem, s.table, index, new_entry),
                            !.ret = "Ok",
                            !.log = Append(@, [ev |-> "install", level |-> 0,
                                               table |-> s.table, index |-> index,
                                               entry |-> new_entry])]

\* PageTable::map_page_inner on the table `self`
\* the loop `for i in 0..4` from `level` down, then the leaf slot
RECURSIVE MapLoop(_, _, _, _, _, _)
MapLoop(s, offset, addr, new_entry, level, u) ==
    IF level < 0 THEN MapLeaf(s, addr, new_entry)
    ELSE With(MapLevel(s, offset, addr, new_entry, level, u), LAMBDA s2 :
           MapLoop(s2, offset, addr, new_entry, level - 1, u))

map_page_inner(m, offset, self, page, new_entry, a, u) ==
    With(MapStart(m, self, a), LAMBDA s : MapLoop(s, offset, page, new_entry, 3, u))

map_page(m, offset, self, page, entry, a, u) ==
    map_page_inner(m, offset, self, page, entry, a, u)

\* ------------------------------------------------------------------------
\* memory.rs: create_mapping
\* ------------------------------------------------------------------------

\* memory.rs load_mut_table
memory_load_mut_table(offset, frame) == memory_load_table(offset, frame)

\* lines 82-101: the entry is not present; below level 0 a frame is
\* allocated and linked, or the function panics
CreateAllocate(s, table, index, level) ==
    IF level = 0 THEN [s EXCEPT !.table = table]
    ELSE With(allocate(s.alloc), LAMBDA r :
           IF r.frame = None
           THEN [s EXCEPT !.table = table, !.alloc = r.alloc, !.ret = "Panic",
                          !.log = Append(@, [ev |-> "alloc_failed", level |-> level,
                                             table |-> table])]
           ELSE With(PageTableEntry_new(r.frame.val, WOr(PRESENT, WRITABLE)), LAMBDA entry :
                  [s EXCEPT !.table = table, !.alloc = r.alloc,
                            !.mem = WriteEntry(s.mem, table, index, entry),
                            !.frame = r.frame.val,
                            !.log = Append(@, [ev |-> "link", level |-> level, table |-> table,
                                               index |-> index, entry |-> entry,
                                               frame |-> r.frame.val])]))

\* lines 75-79: the entry decodes to a huge frame.  Inside the loop `entry`
\* is the local of line 72, the entry just read, which hides the argument:
\* the slot is written with the entry it holds
CreateHuge(s, table, index, level, entry, new_entry) ==
    [s EXCEPT !.table = table,
              !.mem = WriteEntry(s.mem, table, index, entry),
              !.ret = "Ok",
              !.log = Append(@, [ev |-> "huge", level |-> level, table |-> table,
                                 index |-> index, entry |-> entry])]

\* one iteration of `for i in 0..4` (lines 67-103), level = 3 - i
CreateLevel(s, offset, addr, new_entry, level) ==
    IF s.ret # "running" THEN s
    ELSE With(memory_load_mut_table(offset, s.frame), LAMBDA t :
           IF t.tag # "Some" THEN [s EXCEPT !.ret = t.tag]
           ELSE LET index == page_table_index(addr, level)
                    entry == ReadEntry(s.mem, t.val, index)
                IN  With(PageTableEntry_frame(entry, level), LAMBDA fr :
                      CASE fr.tag = "Panic" -> [s EXCEPT !.table = t.val, !.ret = "Panic"]
                        [] fr.tag = "None" -> CreateAllocate(s, t.val, index, level)
                        [] fr.tag = "Some" /\ fr.val.size # "4K" ->
                              CreateHuge(s, t.val, index, level, entry, new_entry)
                        [] OTHER -> [s EXCEPT !.table = t.val, !.frame = fr.val]))

\* line 105: table[addr.page_table_index(0)] = entry
CreateLeaf(s, addr, new_entry) ==
    IF s.ret # "running" THEN s
    ELSE LET index == page_table_index(addr, 0)
         IN  [s EXCEPT !.mem = WriteEntry(s.mem, s.table, index, new_entry),
                       !.ret = "Ok",
                       !.log = Append(@, [ev |-> "install", level |-> 0, table |-> s.table,
                                          index |-> index, entry |-> new_entry])]

\* the loop `for i in 0..4` from `level` down, then line 105
RECURSIVE CreateLoop(_, _, _, _, _)
CreateLoop(s, offset, addr, new_entry, level) ==
    IF level < 0 THEN CreateLeaf(s, addr, new_entry)
    ELSE With(CreateLevel(s, offset, addr, new_entry, level), LAMBDA s2 :
           CreateLoop(s2, offset, addr, new_entry, level - 1))

\* create_mapping_inner: lines 62-65 load the table of the CR3 frame, as
\* the first iteration does again
create_mapping_inner(m, offset, addr, entry, a) ==
    With(memory_load_mut_table(offset, Cr3_read), LAMBDA t :
      IF t.tag # "Some"
      THEN [frame |-> Cr3_read, table |-> FrameNo(Cr3_read), mem |-> m, alloc |-> a,
            ret |-> t.tag, log |-> <<>>]
      ELSE CreateLoop([frame |-> Cr3_read, table |-> t.val, mem |-> m, alloc |-> a,
                       ret |-> "running", log |-> <<>>], offset, addr, entry, 3))

create_mapping(m, offset, addr, entry, a) == create_mapping_inner(m, offset, addr, entry, a)

\* ------------------------------------------------------------------------
\* memory.rs / allocator.rs: the active hierarchy and the heap bootstrap
\* ------------------------------------------------------------------------

\* load_active_pagetable: the table in the CR3 frame, seen through the
\* physical-memory offset
load_active_pagetable(offset) == load_table(offset, Cr3_read)

HEAP_START == U64(0, 17476, 17476, 0)

HEAP_SIZE == 102400

\* the page range init_heap builds (lines 26-32), as the pages it yields
HeapPages ==
    LET heap_start == HEAP_START
        heap_end == VirtAddr_add(heap_start, FromNat(HEAP_SIZE - 1))
        heap_start_page == Page_containing_address(heap_start)
        heap_end_page == Page_containing_address(heap_end)
    IN  PageRange(heap_start_page, heap_end_page, HEAP_SIZE)

\* the body of the loop of init_heap (lines 34-43) for one page;
\* `frame_allocator.allocate().unwrap()` panics when allocate returns none
HeapStep(s, page, offset, table, u) ==
    IF s.ret # "running" THEN s
    ELSE With(allocate(s.alloc), LAMBDA r :
           IF r.frame = None
           THEN [s EXCEPT !.alloc = r.alloc, !.ret = "Panic",
                          !.data = Append(@, [page |-> page, frame |-> None, ret |-> "unwrap"])]
           ELSE With(PageTableEntry_new(r.frame.val, WOr(PRESENT, WRITABLE)), LAMBDA entry :
                  With(map_page(s.mem, offset, table, page, entry, r.alloc, u), LAMBDA mp :
                    [mem |-> mp.mem, alloc |-> mp.alloc,
                     ret |-> CASE mp.ret = "Ok" -> "running"
                               [] mp.ret \in {"PageAlreadyMapped", "FrameAllocation"} -> "Err"
                               [] OTHER -> mp.ret,
                     data |-> Append(s.data, [page |-> page, frame |-> r.frame.val,
                                              ret |-> mp.ret]),
                     log |-> s.log \o mp.log])))

\* `for page in page_range` over pages[lo..hi], in order (the range is
\* halved so that the evaluation nests to the logarithm of its length)
RECURSIVE HeapLoop(_, _, _, _, _, _, _)
HeapLoop(s, pages, lo, hi, offset, table, u) ==
    IF lo > hi THEN s
    ELSE IF lo = hi THEN HeapStep(s, pages[lo], offset, table, u)
    ELSE With(HeapLoop(s, pages, lo, (lo + hi) \div 2, offset, table, u), LAMBDA s2 :
           HeapLoop(s2, pages, (lo + hi) \div 2 + 1, hi, offset, table, u))

\* init_heap: the outcome, memory and allocator afterwards, and whether
\* GLOBAL_ALLOCATOR.lock().init(HEAP_START, HEAP_SIZE) ran
init_heap(m, offset, a, u) ==
    LET table == load_active_pagetable(offset)
        s0 == [mem |-> m, alloc |-> a, ret |-> "running", data |-> <<>>, log |-> <<>>]
    IN  IF table.tag # "Some" THEN [s0 EXCEPT !.ret = table.tag]
        ELSE With(HeapLoop(s0, HeapPages, 1, Len(HeapPages), offset, table.val, u), LAMBDA s :
               IF s.ret = "running" THEN [s EXCEPT !.ret = "Ok"] ELSE s)

\* ------------------------------------------------------------------------
\* process.rs: the process table
\* ------------------------------------------------------------------------

NPROC == 2

\* Process::new()
Process_new ==
    [state |-> "Available", exit_code |-> 0, process_id |-> 0, pagetable |-> PageTable_new]

\* init_process_list_internal
init_process_list_internal == [i \in 1..NPROC |-> Process_new]

\* the body of the loop without `*next_pid += 1`
AllocateSlot_keeps_pid(st, i) ==
    IF st.list[i].state = "Available"
    THEN [list |-> [st.list EXCEPT ![i] = [@ EXCEPT !.state = "Ready",
                                                   !.process_id = st.next_pid,
                                                   !.pagetable = PageTable_new]],
          next_pid |-> st.next_pid]
    ELSE st

\* the body of the for loop of allocate_process for slot i
AllocateSlot(st, i) ==
    IF st.list[i].state = "Available"
    THEN [list |-> [st.list EXCEPT ![i] = [@ EXCEPT !.state = "Ready",
                                                   !.process_id = st.next_pid,
                                                   !.pagetable = PageTable_new]],
          next_pid |-> st.next_pid + 1]
    ELSE st

\* for proc in PROCESS_LIST.iter(), from slot i on
RECURSIVE AllocateFrom(_, _)
AllocateFrom(st, i) ==
    IF i > Len(st.list) THEN st
    ELSE With(AllocateSlot(st, i), LAMBDA st2 : AllocateFrom(st2, i + 1))

allocate_process(list, next_pid) == AllocateFrom([list |-> list, next_pid |-> next_pid], 1)

\* The callers of allocate_process that run at the same time.
Threads == {1, 2}

\* A thread that has not called allocate_process: where it is in the
\* function, the slot its loop is at, and the calls it has made.
NotCalled == [pc |-> "idle", i |-> 0, calls |-> 0]

\* The spin::Mutex of every slot of PROCESS_LIST and that of NEXT_PID: the
\* thread that holds it, or 0.
Unlocked == [proc |-> [i \in 1..NPROC |-> 0], next_pid |-> 0]

\* ------------------------------------------------------------------------
\* The machine at boot: what the loader hands over
\* ------------------------------------------------------------------------

Link(n) == PageTableEntry_new(Frame4K(n), WOr(PRESENT, WRITABLE))

Table(pairs) == [i \in {p[1] : p \in pairs} |-> (CHOOSE p \in pairs : p[1] = i)[2]]

\* BootInfo.physical_memory_offset and a second value init may be given
PhysOffset == U64(0, 0, 384, 0)

OtherOffset == U64(0, 0, 512, 0)

VGA_BUFFER_ADDRESS == FromNat(753664)

\* BootInfo.memory_map: low memory reserved, 40 usable frames, the VGA
\* frame reserved
BootMemoryMap == <<Region(0, 8, FALSE), Region(8, 48, TRUE), Region(184, 185, FALSE)>>

\* The hierarchy of the loader: the VGA page identity-mapped through 4 KiB
\* tables (frames 2, 3, 4), and physical memory mapped at PhysOffset with
\* huge pages (frames 5, 6): two 2 MiB pages and one 1 GiB page.
BootTables ==
    [f \in RAM |->
        CASE f = 1 -> Table({<<0, Link(2)>>, <<3, Link(5)>>})
          [] f = 2 -> Table({<<0, Link(3)>>})
          [] f = 3 -> Table({<<0, Link(4)>>})
          [] f = 4 -> Table({<<184, Link(184)>>})
          [] f = 5 -> Table({<<0, Link(6)>>,
                             <<1, PageTableEntry_new(PhysFrame("1G", U64(0, 16384, 0, 0)),
                                                     WOr(WOr(PRESENT, WRITABLE), HUGE_PAGE))>>})
          [] f = 6 -> Table({<<0, PageTableEntry_new(PhysFrame("2M", U64(0, 0, 0, 0)),
                                                     WOr(WOr(PRESENT, WRITABLE), HUGE_PAGE))>>,
                             <<1, PageTableEntry_new(PhysFrame("2M", U64(0, 32, 0, 0)),
                                                     WOr(WOr(PRESENT, WRITABLE), HUGE_PAGE))>>})
          [] OTHER -> PageTable_new]

\* A root table with no entry (a freshly created PageTable as `self`).
EmptyTables == [f \in RAM |-> PageTable_new]

\* What a frame nobody cleared may hold: here two stale entries.
JunkTable == Table({<<1, Link(184)>>, <<245, Link(184)>>})

\* The first frames the allocator hands out hold junk.
WithJunk(m) == [f \in RAM |-> IF f \in 8..11 THEN JunkTable ELSE m[f]]

InitialMemories == {BootTables, EmptyTables, WithJunk(BootTables), WithJunk(EmptyTables)}

\* ------------------------------------------------------------------------
\* Inputs
\* ------------------------------------------------------------------------

\* most operations that change memory in one behaviour
MaxOps == 2

\* most standalone calls of allocate in one behaviour
MaxAllocs == 4

\* memory maps of the allocator specification: at most MaxRegions regions
\* over the frames 0..MaxFrameNo
MaxRegions == 2

MaxFrameNo == 2

Regions == {Region(s, e, u) : s \in 0..MaxFrameNo, e \in 0..MaxFrameNo, u \in BOOLEAN}

MemoryMaps == UNION {[1..n -> Regions] : n \in 0..MaxRegions}

\* addresses used by the tests and the heap, and addresses whose walk ends
\* at each level
Addresses ==
    {FromNat(5), U64(48879, 57005, 0, 0), VGA_BUFFER_ADDRESS, PhysOffset,
     HEAP_START, VirtAddr_add(HEAP_START, FromNat(HEAP_SIZE - 1)),
     VirtAddr_add(PhysOffset, U64(20485, 33, 0, 0)),
     VirtAddr_add(PhysOffset, U64(20485, 16417, 0, 0)),
     U64(52971, 57005, 0, 0), FromNat(2097152)}

\* the calls map_page(page, entry, _) made: those of the tests
\* add_valid_entry, add_allocation_entry and try_to_remap, the first heap
\* page, and page 0 again with another entry
MapCalls ==
    {<<Page_containing_address(FromNat(5)), PageTableEntry_new(Frame4K(1), PRESENT)>>,
     <<Page_containing_address(FromNat(5)), PageTableEntry_new(Frame4K(0), PRESENT)>>,
     <<Page_containing_address(U64(48879, 57005, 0, 0)), PageTableEntry_new(Frame4K(1), PRESENT)>>,
     <<Page_containing_address(VGA_BUFFER_ADDRESS), PageTableEntry_new(Frame4K(0), PRESENT)>>,
     <<Page_containing_address(PhysOffset), PageTableEntry_new(Frame4K(0), PRESENT)>>,
     <<Page_containing_address(HEAP_START), PageTableEntry_new(Frame4K(1), PRESENT)>>}

Offsets == {0, 5, 3823, 4095}

\* the entries a caller maps: the frames at 4096 and at 0, PRESENT
NewEntries == {c[2] : c \in MapCalls}

\* values the uninitialized local `frame` of map_page_inner may hold
UninitFrames == {Frame4K(1), Frame4K(2), Frame4K(8)}

\* entries and levels PageTableEntry::frame is applied to
DecodeEntries ==
    {PageTableEntry_new(PhysFrame(sz, st), fl) :
        sz \in {"4K"},
        st \in {FromNat(0), FromNat(4096), U64(8192, 16416, 0, 0)},
        fl \in {ZeroWord, PRESENT, WOr(PRESENT, HUGE_PAGE), HUGE_PAGE,
                WOr(PRESENT, NO_EXECUTE), WOr(WOr(PRESENT, HUGE_PAGE), NO_EXECUTE)}}

Levels == 0..3

VARIABLES
    boot_info,        \* the BootInfo of the loader: memory_map, physical_memory_offset
    mem,              \* physical memory, as page tables
    PHYSICAL_OFFSET,  \* memory.rs: Once<u64>
    FRAME_ALLOCATOR,  \* allocator.rs: Once<Mutex<BootInfoAllocator>>
    GLOBAL_ALLOCATOR, \* allocator.rs: the heap handed to LockedHeap, or None
    PROCESS_LIST,     \* process.rs
    NEXT_PID,         \* process.rs
    panicked,         \* a panic or fault has stopped the kernel
    last,             \* the last operation: its arguments and its result
    mapped,           \* the <<page, entry>> pairs map_page returned Ok for
    allocated,        \* the results of the standalone allocate calls, in order
    ops,              \* operations counted against MaxOps
    pc,               \* the step of `main` the kernel is at (an index of main)
    interrupts,       \* the interrupt flag of the processor
    threads,          \* process.rs: where each caller of allocate_process is
    locks             \* process.rs: the holders of the mutexes

vars == <<boot_info, mem, PHYSICAL_OFFSET, FRAME_ALLOCATOR, GLOBAL_ALLOCATOR, PROCESS_LIST,
          NEXT_PID, panicked, last, mapped, allocated, ops, pc, interrupts, threads, locks>>

\* kernel::init with interrupts enabled before the subsystems are initialized
kernel_init_enables_first ==
    <<"gdt::init", "interrupts::init_idt", "interrupts::init_pics", "interrupts::enable",
      "allocator::init", "memory::init", "process::init_process">>

\* lib.rs init (lines 26-32): the calls it makes, in order
kernel_init ==
    <<"gdt::init", "interrupts::init_idt", "interrupts::init_pics", "allocator::init",
      "memory::init", "process::init_process", "interrupts::enable">>

\* tests/heap_allocation.rs main (lines 18-27): kernel::init, then the heap
\* bootstrap with the global frame allocator; it goes on to test_main
main == kernel_init \o <<"FRAME_ALLOCATOR.wait", "init_heap">>

\* the entry point: the loader hands over with interrupts disabled
KernelEntry == pc = 1 /\ interrupts = FALSE

\* kernel::init has returned
AfterInit == pc = Len(kernel_init) + 1 /\ interrupts = TRUE

Self == FrameNo(Cr3_read)

Stops(ret) == ret \in {"Panic", "Fault"}

InitCommon ==
    /\ GLOBAL_ALLOCATOR = None
    /\ PROCESS_LIST = init_process_list_internal
    /\ NEXT_PID = 0
    /\ panicked = FALSE
    /\ last = [op |-> "none"]
    /\ mapped = {}
    /\ allocated = <<>>
    /\ ops = 0
    /\ threads = [t \in Threads |-> NotCalled]
    /\ locks = Unlocked

\* The page-table operations, once kernel::init has run (lib.rs 25-33).
Init ==
    /\ boot_info = [memory_map |-> BootMemoryMap, physical_memory_offset |-> PhysOffset]
    /\ mem \in InitialMemories
    /\ PHYSICAL_OFFSET = Some(boot_info.physical_memory_offset)
    /\ FRAME_ALLOCATOR = Some(BootInfoAllocator_init(boot_info.memory_map))
    /\ InitCommon
    /\ AfterInit

\* memory::init that stores its argument at every call
memory_init_overwrites(o) ==
    /\ ~panicked
    /\ PHYSICAL_OFFSET' = Some(o)
    /\ last' = [op |-> "memory_init", arg |-> o]
    /\ UNCHANGED <<threads, locks, pc, interrupts, boot_info, mem, FRAME_ALLOCATOR,
                   GLOBAL_ALLOCATOR, PROCESS_LIST, NEXT_PID, panicked, mapped, allocated, ops>>

\* memory::init
memory_init(o) ==
    /\ ~panicked
    /\ PHYSICAL_OFFSET' = IF PHYSICAL_OFFSET = None THEN Some(o) ELSE PHYSICAL_OFFSET
    /\ last' = [op |-> "memory_init", arg |-> o]
    /\ UNCHANGED <<threads, locks, pc, interrupts, boot_info, mem, FRAME_ALLOCATOR,
                   GLOBAL_ALLOCATOR, PROCESS_LIST, NEXT_PID, panicked, mapped, allocated, ops>>

\* allocator::init(&boot_info.memory_map)
allocator_init ==
    /\ ~panicked
    /\ FRAME_ALLOCATOR' = IF FRAME_ALLOCATOR = None
                          THEN Some(BootInfoAllocator_init(boot_info.memory_map))
                          ELSE FRAME_ALLOCATOR
    /\ last' = [op |-> "allocator_init"]
    /\ UNCHANGED <<threads, locks, pc, interrupts, boot_info, mem, PHYSICAL_OFFSET,
                   GLOBAL_ALLOCATOR, PROCESS_LIST, NEXT_PID, panicked, mapped, allocated, ops>>

\* map_page_inner reads its local `frame` before any assignment exactly when
\* the first iteration finds a 4 KiB entry in the root table (line 132);
\* then the value read is any of UninitFrames
UninitValues(m, self, page) ==
    LET fr == PageTableEntry_frame(ReadEntry(m, self, page_table_index(page, 3)), 3)
    IN  IF fr.tag = "Some" /\ fr.val.size = "4K" THEN UninitFrames ELSE {Uninit}

\* the slots <<frame, index>> whose entry differs between two memories
Written(m1, m2) ==
    UNION {{<<t, i>> : i \in {k \in DOMAIN m1[t] \cup DOMAIN m2[t] :
                                  ReadEntry(m1, t, k) # ReadEntry(m2, t, k)}} :
             t \in {f \in RAM : m1[f] # m2[f]}}

\* the result of a call that panicked before it touched anything
Panicked(m, a) == [mem |-> m, alloc |-> a, ret |-> "Panic", log |-> <<>>, data |-> <<>>]

\* table.map_page(page, entry, allocator) on the active root table, with
\* the ZeroAllocator or the locked FRAME_ALLOCATOR; the caller panics when
\* FRAME_ALLOCATOR.wait() is None (pagetable.rs 312-315)
MapPage(page, entry, kind, u) ==
    /\ ~panicked
    /\ ops < MaxOps
    /\ \E r \in {IF kind = "BootInfoAllocator" /\ FRAME_ALLOCATOR = None
                  THEN Panicked(mem, FRAME_ALLOCATOR)
                  ELSE map_page(mem, PHYSICAL_OFFSET, Self, page, entry,
                                IF kind = "BootInfoAllocator" THEN FRAME_ALLOCATOR.val
                                ELSE ZeroAllocator, u)} :
           /\ mem' = r.mem
           /\ FRAME_ALLOCATOR' = IF kind = "BootInfoAllocator" /\ FRAME_ALLOCATOR # None
                                 THEN Some(r.alloc)
                                 ELSE FRAME_ALLOCATOR
           /\ panicked' = Stops(r.ret)
           /\ last' = [op |-> "map_page", page |-> page, entry |-> entry, kind |-> kind,
                       ret |-> r.ret, log |-> r.log,
                       written |-> Written(mem, r.mem),
                       was_mapped |-> {e \in NewEntries : <<page, e>> \in mapped}]
           /\ mapped' = IF r.ret = "Ok" THEN mapped \cup {<<page, entry>>} ELSE mapped
    /\ ops' = ops + 1
    /\ UNCHANGED <<threads, locks, pc, interrupts, boot_info, PHYSICAL_OFFSET, GLOBAL_ALLOCATOR,
                   PROCESS_LIST, NEXT_PID, allocated>>

\* table.translate_addr(addr) on the active root table
TranslateAddr(addr) ==
    /\ ~panicked
    /\ \E r \in {translate_addr(mem, PHYSICAL_OFFSET, Self, addr)} :
           /\ last' = [op |-> "translate_addr", addr |-> addr, ret |-> r,
                       reads |-> WalkLoop(mem, PHYSICAL_OFFSET, Self, addr, 3, <<>>).reads]
           /\ panicked' = Stops(r.tag)
    /\ UNCHANGED <<threads, locks, pc, interrupts, boot_info, mem, PHYSICAL_OFFSET,
                   FRAME_ALLOCATOR, GLOBAL_ALLOCATOR, PROCESS_LIST, NEXT_PID, mapped, allocated,
                   ops>>

\* memory.rs translate_addr(&addr)
MemoryTranslateAddr(addr) ==
    /\ ~panicked
    /\ \E r \in {memory_translate_addr(mem, PHYSICAL_OFFSET, addr)} :
           /\ last' = [op |-> "memory_translate_addr", addr |-> addr, ret |-> r]
           /\ panicked' = Stops(r.tag)
    /\ UNCHANGED <<threads, locks, pc, interrupts, boot_info, mem, PHYSICAL_OFFSET,
                   FRAME_ALLOCATOR, GLOBAL_ALLOCATOR, PROCESS_LIST, NEXT_PID, mapped, allocated,
                   ops>>

\* get_offset()
GetOffset ==
    /\ ~panicked
    /\ \E r \in {get_offset(PHYSICAL_OFFSET)} :
           /\ last' = [op |-> "get_offset", ret |-> r]
           /\ panicked' = Stops(r.tag)
    /\ UNCHANGED <<threads, locks, pc, interrupts, boot_info, mem, PHYSICAL_OFFSET,
                   FRAME_ALLOCATOR, GLOBAL_ALLOCATOR, PROCESS_LIST, NEXT_PID, mapped, allocated,
                   ops>>

\* entry.frame(level)
EntryFrame(entry, level) ==
    /\ ~panicked
    /\ \E r \in {PageTableEntry_frame(entry, level)} :
           /\ last' = [op |-> "frame", entry |-> entry, level |-> level, ret |-> r]
           /\ panicked' = Stops(r.tag)
    /\ UNCHANGED <<threads, locks, pc, interrupts, boot_info, mem, PHYSICAL_OFFSET,
                   FRAME_ALLOCATOR, GLOBAL_ALLOCATOR, PROCESS_LIST, NEXT_PID, mapped, allocated,
                   ops>>

\* init_heap(&mut *FRAME_ALLOCATOR.lock()), called as its one caller calls
\* it: first thing after kernel::init (tests/heap_allocation.rs 18-23); the
\* caller panics when FRAME_ALLOCATOR.wait() is None
InitHeap(u) ==
    /\ ~panicked
    /\ ops = 0
    /\ \E r \in {IF FRAME_ALLOCATOR = None THEN Panicked(mem, FRAME_ALLOCATOR)
                  ELSE init_heap(mem, PHYSICAL_OFFSET, FRAME_ALLOCATOR.val, u)} :
           /\ mem' = r.mem
           /\ FRAME_ALLOCATOR' = IF FRAME_ALLOCATOR = None THEN None ELSE Some(r.alloc)
           /\ GLOBAL_ALLOCATOR' = IF r.ret = "Ok"
                                  THEN Some([start |-> HEAP_START, size |-> HEAP_SIZE])
                                  ELSE GLOBAL_ALLOCATOR
           /\ panicked' = Stops(r.ret)
           /\ last' = [op |-> "init_heap", ret |-> r.ret, data |-> r.data, log |-> r.log]
    /\ ops' = ops + 1
    /\ UNCHANGED <<threads, locks, pc, interrupts, boot_info, PHYSICAL_OFFSET, PROCESS_LIST,
                   NEXT_PID, mapped, allocated>>

\* process::allocate_process
AllocateProcess ==
    /\ ~panicked
    /\ \E r \in {allocate_process(PROCESS_LIST, NEXT_PID)} :
           /\ PROCESS_LIST' = r.list
           /\ NEXT_PID' = r.next_pid
           /\ last' = [op |-> "allocate_process", list |-> PROCESS_LIST, next_pid |-> NEXT_PID]
    /\ UNCHANGED <<threads, locks, pc, interrupts, boot_info, mem, PHYSICAL_OFFSET,
                   FRAME_ALLOCATOR, GLOBAL_ALLOCATOR, panicked, mapped, allocated, ops>>

\* FRAME_ALLOCATOR.lock().allocate()
Allocate ==
    /\ ~panicked
    /\ FRAME_ALLOCATOR # None
    /\ Len(allocated) < MaxAllocs
    /\ \E r \in {allocate(FRAME_ALLOCATOR.val)} :
           /\ FRAME_ALLOCATOR' = Some(r.alloc)
           /\ allocated' = Append(allocated, r.frame)
           /\ last' = [op |-> "allocate", ret |-> r.frame]
    /\ UNCHANGED <<threads, locks, pc, interrupts, boot_info, mem, PHYSICAL_OFFSET,
                   GLOBAL_ALLOCATOR, PROCESS_LIST, NEXT_PID, panicked, mapped, ops>>

Next ==
    \/ \E call \in MapCalls, kind \in {"ZeroAllocator", "BootInfoAllocator"} :
          \E u \in UninitValues(mem, Self, call[1]) : MapPage(call[1], call[2], kind, u)
    \/ \E u \in UninitFrames : InitHeap(u)

Spec == Init /\ [][Next]_vars

\* The frame allocator alone, from before allocator::init, over every small
\* memory map.
InitAlloc ==
    /\ boot_info \in [memory_map : MemoryMaps, physical_memory_offset : {PhysOffset}]
    /\ mem = EmptyTables
    /\ PHYSICAL_OFFSET = None
    /\ FRAME_ALLOCATOR = None
    /\ InitCommon
    /\ KernelEntry

NextAlloc ==
    \/ allocator_init
    \/ Allocate

SpecAlloc == InitAlloc /\ [][NextAlloc]_vars

\* The operations that leave memory alone, from before kernel::init.
InitUnits ==
    /\ boot_info = [memory_map |-> BootMemoryMap, physical_memory_offset |-> PhysOffset]
    /\ mem \in InitialMemories
    /\ PHYSICAL_OFFSET = None
    /\ FRAME_ALLOCATOR = None
    /\ InitCommon
    /\ KernelEntry

NextUnits ==
    \/ \E o \in {PhysOffset, OtherOffset} : memory_init(o)
    \/ GetOffset
    \/ \E addr \in Addresses : TranslateAddr(addr)
    \/ \E entry \in DecodeEntries, level \in Levels : EntryFrame(entry, level)
    \/ AllocateProcess

SpecUnits == InitUnits /\ [][NextUnits]_vars

\* PageTable::load_table(frame)
LoadTable(frame) ==
    /\ ~panicked
    /\ \E r \in {load_table(PHYSICAL_OFFSET, frame)} :
           /\ last' = [op |-> "load_table", frame |-> frame, ret |-> r]
           /\ panicked' = Stops(r.tag)
    /\ UNCHANGED <<threads, locks, pc, interrupts, boot_info, mem, PHYSICAL_OFFSET,
                   FRAME_ALLOCATOR, GLOBAL_ALLOCATOR, PROCESS_LIST, NEXT_PID, mapped, allocated,
                   ops>>

\* the calls of map_page and translate_addr tried while the kernel boots:
\* a page under a PRESENT root entry of the loader, and the first heap page
BootMapCalls ==
    {<<Page_containing_address(FromNat(5)), PageTableEntry_new(Frame4K(1), PRESENT)>>,
     <<Page_containing_address(HEAP_START), PageTableEntry_new(Frame4K(1), PRESENT)>>}

BootAddresses ==
    {VGA_BUFFER_ADDRESS, HEAP_START, FromNat(5), VirtAddr_add(PhysOffset, U64(20485, 33, 0, 0))}

\* The kernel from its entry point: the two init calls in any order, and
\* the operations that need them before, between and after.
InitBoot ==
    /\ boot_info = [memory_map |-> BootMemoryMap, physical_memory_offset |-> PhysOffset]
    /\ mem \in {BootTables, EmptyTables}
    /\ PHYSICAL_OFFSET = None
    /\ FRAME_ALLOCATOR = None
    /\ InitCommon
    /\ KernelEntry

NextBoot ==
    \/ memory_init(boot_info.physical_memory_offset)
    \/ allocator_init
    \/ GetOffset
    \/ LoadTable(Cr3_read)
    \/ \E addr \in BootAddresses : TranslateAddr(addr)
    \/ \E addr \in BootAddresses : MemoryTranslateAddr(addr)
    \/ \E call \in BootMapCalls, kind \in {"ZeroAllocator", "BootInfoAllocator"} :
          \E u \in UninitValues(mem, Self, call[1]) : MapPage(call[1], call[2], kind, u)
    \/ \E u \in UninitFrames : InitHeap(u)

SpecBoot == InitBoot /\ [][NextBoot]_vars

\* limbs that put zeros, ones and mixed bits on both sides of every field
LimbValues == {0, 1, 4095, 4096, 43690, 65535}

\* the address of the tests of virt_addr.rs, 0xE677_BF54_D244, and every
\* address made of the limbs above
WideAddresses == [1..4 -> LimbValues] \cup {U64(53828, 48980, 58999, 0)}

\* 4 KiB frames, up to the highest frame of a 52-bit physical address
EntryFrames ==
    {PhysFrame("4K", st) : st \in {FromNat(0), FromNat(4096), U64(8192, 16416, 0, 0),
                                   U64(61440, 65535, 65535, 15)}}

\* every set of flags the bitflags struct can hold (bits 0..8 and 63)
EntryFlagSets == {U64(lo, 0, 0, hi) : lo \in 0..511, hi \in {0, 32768}}

\* pages, and page counts to add to them
AddPages ==
    {Page_containing_address(U64(w1, w2, w3, w4)) :
        w1 \in {0, 4096, 61440}, w2 \in {0, 4095, 65535}, w3 \in {0, 4095, 65535},
        w4 \in {0, 4095, 65535}}

AddCounts ==
    {U64(w1, w2, 0, w4) : w1 \in {0, 1, 5, 15, 16, 65535}, w2 \in {0, 1, 65535},
                          w4 \in {0, 1, 15, 16, 4096}}

\* addr.page_table_index(level)
PageTableIndexOf ==
    /\ last.op = "call" /\ last.fn = "VirtAddr"
    /\ last' = [op |-> "page_table_index", addr |-> last.addr, level |-> last.level,
                ret |-> page_table_index(last.addr, last.level)]
    /\ UNCHANGED <<threads, locks, pc, interrupts, boot_info, mem, PHYSICAL_OFFSET,
                   FRAME_ALLOCATOR, GLOBAL_ALLOCATOR, PROCESS_LIST, NEXT_PID, panicked, mapped,
                   allocated, ops>>

\* addr.page_offset()
PageOffsetOf ==
    /\ last.op = "call" /\ last.fn = "VirtAddr"
    /\ last' = [op |-> "page_offset", addr |-> last.addr, ret |-> page_offset(last.addr)]
    /\ UNCHANGED <<threads, locks, pc, interrupts, boot_info, mem, PHYSICAL_OFFSET,
                   FRAME_ALLOCATOR, GLOBAL_ALLOCATOR, PROCESS_LIST, NEXT_PID, panicked, mapped,
                   allocated, ops>>

\* addr.align_down(), and the page offset of the result
AlignDown ==
    /\ last.op = "call" /\ last.fn = "VirtAddr"
    /\ \E r \in {align_down(last.addr)} :
           last' = [op |-> "align_down", addr |-> last.addr, ret |-> r,
                    ret_offset |-> page_offset(r)]
    /\ UNCHANGED <<threads, locks, pc, interrupts, boot_info, mem, PHYSICAL_OFFSET,
                   FRAME_ALLOCATOR, GLOBAL_ALLOCATOR, PROCESS_LIST, NEXT_PID, panicked, mapped,
                   allocated, ops>>

\* PageTableEntry::new(frame, flags).frame(level)
NewThenFrame ==
    /\ last.op = "call" /\ last.fn = "PageTableEntry"
    /\ \E r \in {PageTableEntry_frame(PageTableEntry_new(last.frame, last.flags), last.level)} :
           /\ last' = [op |-> "new_frame", frame |-> last.frame, flags |-> last.flags,
                       level |-> last.level, ret |-> r]
           /\ panicked' = Stops(r.tag)
    /\ UNCHANGED <<threads, locks, pc, interrupts, boot_info, mem, PHYSICAL_OFFSET,
                   FRAME_ALLOCATOR, GLOBAL_ALLOCATOR, PROCESS_LIST, NEXT_PID, mapped, allocated,
                   ops>>

\* The pure functions of virt_addr.rs and paging.rs: `last` starts as the
\* call to make, its arguments drawn from the sets above.
InitPure ==
    /\ boot_info = [memory_map |-> BootMemoryMap, physical_memory_offset |-> PhysOffset]
    /\ mem = EmptyTables
    /\ PHYSICAL_OFFSET = None
    /\ FRAME_ALLOCATOR = None
    /\ GLOBAL_ALLOCATOR = None
    /\ PROCESS_LIST = init_process_list_internal
    /\ NEXT_PID = 0
    /\ panicked = FALSE
    /\ mapped = {}
    /\ allocated = <<>>
    /\ ops = 0
    /\ threads = [t \in Threads |-> NotCalled]
    /\ locks = Unlocked
    /\ KernelEntry
    /\ last \in [op : {"call"}, fn : {"VirtAddr"}, addr : WideAddresses, level : Levels]
                 \cup [op : {"call"}, fn : {"PageTableEntry"}, frame : EntryFrames,
                       flags : EntryFlagSets, level : Levels]
                 \cup [op : {"call"}, fn : {"Page"}, page : AddPages, rhs : AddCounts]

\* page + rhs
PageAdd ==
    /\ last.op = "call" /\ last.fn = "Page"
    /\ \E r \in {Some(Page_add(last.page, last.rhs))}
                \cup (IF Page_add_overflows(last.page, last.rhs) THEN {Panic} ELSE {}) :
           /\ last' = [op |-> "page_add", page |-> last.page, rhs |-> last.rhs, ret |-> r]
           /\ panicked' = Stops(r.tag)
    /\ UNCHANGED <<threads, locks, pc, interrupts, boot_info, mem, PHYSICAL_OFFSET,
                   FRAME_ALLOCATOR, GLOBAL_ALLOCATOR, PROCESS_LIST, NEXT_PID, mapped, allocated,
                   ops>>

NextPure ==
    \/ PageTableIndexOf
    \/ PageOffsetOf
    \/ AlignDown
    \/ NewThenFrame
    \/ PageAdd

SpecPure == InitPure /\ [][NextPure]_vars

\* memory maps with 0, 2, 4 and 40 usable frames (the last is BootMemoryMap)
HeapMemoryMaps ==
    {<<Region(0, 8, FALSE), Region(8, 8 + n, TRUE), Region(184, 185, FALSE)>> : n \in {0, 2, 4, 40}}

\* The heap bootstrap after kernel::init, over memory maps with few or many
\* usable frames, with other users of the frame allocator before and after.
InitHeapBoot ==
    /\ boot_info \in [memory_map : HeapMemoryMaps, physical_memory_offset : {PhysOffset}]
    /\ mem \in InitialMemories
    /\ PHYSICAL_OFFSET = Some(boot_info.physical_memory_offset)
    /\ FRAME_ALLOCATOR = Some(BootInfoAllocator_init(boot_info.memory_map))
    /\ InitCommon
    /\ AfterInit

NextHeap ==
    \/ Allocate
    \/ \E u \in UninitFrames : InitHeap(u)

SpecHeap == InitHeapBoot /\ [][NextHeap]_vars

\* memory maps with no usable frame, with too few for the heap, with about
\* as many as the heap and its tables take, and with more
KernelMemoryMaps ==
    {<<Region(0, 8, FALSE), Region(8, 8 + n, TRUE), Region(184, 185, FALSE)>> :
        n \in {0, 2, 4, 26, 27, 28, 40}}

\* What a free frame the loader used as a page table before it handed the
\* memory over may hold: here the entries of its table in frame 5.
StaleTable == BootTables[5]

\* The frames the allocator hands out hold such tables.
WithStale(m) == [f \in RAM |-> IF f \in 8..10 THEN StaleTable ELSE m[f]]

\* memory maps with one, two and three usable frames left
ScarceMemoryMaps ==
    {<<Region(0, 8, FALSE), Region(8, 8 + n, TRUE), Region(184, 185, FALSE)>> : n \in 1..3}

\* The page-table operations on a machine that is about to run out of
\* frames, the free frames zero, or not cleared since their last use.
InitScarce ==
    /\ boot_info \in [memory_map : ScarceMemoryMaps, physical_memory_offset : {PhysOffset}]
    /\ mem \in InitialMemories \cup {WithStale(BootTables), WithStale(EmptyTables)}
    /\ PHYSICAL_OFFSET = Some(boot_info.physical_memory_offset)
    /\ FRAME_ALLOCATOR = Some(BootInfoAllocator_init(boot_info.memory_map))
    /\ InitCommon
    /\ AfterInit

NextScarce ==
    \E call \in MapCalls, kind \in {"ZeroAllocator", "BootInfoAllocator"} :
        \E u \in UninitValues(mem, Self, call[1]) : MapPage(call[1], call[2], kind, u)

SpecScarce == InitScarce /\ [][NextScarce]_vars

\* ------------------------------------------------------------------------
\* process.rs: allocate_process called by two threads, one step at a time
\* ------------------------------------------------------------------------

\* calls of allocate_process one thread makes
MaxCalls == 2

\* the step thread t has taken
Stepped(t, step) == [op |-> "allocate_process_step", thread |-> t, step |-> step]

\* a thread calls allocate_process: the loop starts at the first slot
CallAllocateProcess(t) ==
    /\ threads[t].pc \in {"idle", "done"}
    /\ threads[t].calls < MaxCalls
    /\ threads' = [threads EXCEPT ![t] = [pc |-> "lock_proc", i |-> 1, calls |-> @.calls + 1]]
    /\ last' = Stepped(t, "call")
    /\ UNCHANGED <<locks, pc, interrupts, boot_info, mem, PHYSICAL_OFFSET, FRAME_ALLOCATOR,
                   GLOBAL_ALLOCATOR, PROCESS_LIST, NEXT_PID, panicked, mapped, allocated, ops>>

\* `let mut p = proc.lock();` (line 53): the thread spins until the mutex
\* of the slot is free and takes it
ProcLock(t) ==
    /\ threads[t].pc = "lock_proc"
    /\ locks.proc[threads[t].i] = 0
    /\ locks' = [locks EXCEPT !.proc[threads[t].i] = t]
    /\ threads' = [threads EXCEPT ![t].pc = "match"]
    /\ last' = Stepped(t, "lock_proc")
    /\ UNCHANGED <<pc, interrupts, boot_info, mem, PHYSICAL_OFFSET, FRAME_ALLOCATOR,
                   GLOBAL_ALLOCATOR, PROCESS_LIST, NEXT_PID, panicked, mapped, allocated, ops>>

\* `match p.state` (lines 54-64): an Available slot is taken, any other
\* state continues with the next slot
MatchState(t) ==
    /\ threads[t].pc = "match"
    /\ threads' = [threads EXCEPT ![t].pc =
                       IF PROCESS_LIST[threads[t].i].state = "Available"
                       THEN "lock_pid" ELSE "unlock_proc"]
    /\ last' = Stepped(t, "match")
    /\ UNCHANGED <<locks, pc, interrupts, boot_info, mem, PHYSICAL_OFFSET, FRAME_ALLOCATOR,
                   GLOBAL_ALLOCATOR, PROCESS_LIST, NEXT_PID, panicked, mapped, allocated, ops>>

\* `let mut next_pid = NEXT_PID.lock();` (line 56)
NextPidLock(t) ==
    /\ threads[t].pc = "lock_pid"
    /\ locks.next_pid = 0
    /\ locks' = [locks EXCEPT !.next_pid = t]
    /\ threads' = [threads EXCEPT ![t].pc = "assign"]
    /\ last' = Stepped(t, "lock_pid")
    /\ UNCHANGED <<pc, interrupts, boot_info, mem, PHYSICAL_OFFSET, FRAME_ALLOCATOR,
                   GLOBAL_ALLOCATOR, PROCESS_LIST, NEXT_PID, panicked, mapped, allocated, ops>>

\* the three assignments to the slot (lines 58-60)
AssignSlot(t) ==
    /\ threads[t].pc = "assign"
    /\ PROCESS_LIST' = [PROCESS_LIST EXCEPT ![threads[t].i] =
                            [@ EXCEPT !.state = "Ready",
                                      !.process_id = NEXT_PID,
                                      !.pagetable = PageTable_new]]
    /\ threads' = [threads EXCEPT ![t].pc = "increment"]
    /\ last' = Stepped(t, "assign")
    /\ UNCHANGED <<locks, pc, interrupts, boot_info, mem, PHYSICAL_OFFSET, FRAME_ALLOCATOR,
                   GLOBAL_ALLOCATOR, NEXT_PID, panicked, mapped, allocated, ops>>

\* `*next_pid += 1;` (line 62)
IncrementPid(t) ==
    /\ threads[t].pc = "increment"
    /\ NEXT_PID' = NEXT_PID + 1
    /\ threads' = [threads EXCEPT ![t].pc = "unlock_pid"]
    /\ last' = Stepped(t, "increment")
    /\ UNCHANGED <<locks, pc, interrupts, boot_info, mem, PHYSICAL_OFFSET, FRAME_ALLOCATOR,
                   GLOBAL_ALLOCATOR, PROCESS_LIST, panicked, mapped, allocated, ops>>

\* the end of the Available arm with the guard of NEXT_PID kept
NextPidUnlock_keeps_guard(t) ==
    /\ threads[t].pc = "unlock_pid"
    /\ threads' = [threads EXCEPT ![t].pc = "unlock_proc"]
    /\ last' = Stepped(t, "unlock_pid")
    /\ UNCHANGED <<locks, pc, interrupts, boot_info, mem, PHYSICAL_OFFSET, FRAME_ALLOCATOR,
                   GLOBAL_ALLOCATOR, PROCESS_LIST, NEXT_PID, panicked, mapped, allocated, ops>>

\* the end of the Available arm (line 63): the guard of NEXT_PID is dropped
NextPidUnlock(t) ==
    /\ threads[t].pc = "unlock_pid"
    /\ locks' = [locks EXCEPT !.next_pid = 0]
    /\ threads' = [threads EXCEPT ![t].pc = "unlock_proc"]
    /\ last' = Stepped(t, "unlock_pid")
    /\ UNCHANGED <<pc, interrupts, boot_info, mem, PHYSICAL_OFFSET, FRAME_ALLOCATOR,
                   GLOBAL_ALLOCATOR, PROCESS_LIST, NEXT_PID, panicked, mapped, allocated, ops>>

\* the end of the loop body (line 65): the guard of the slot is dropped and
\* the iterator moves on; after the last slot the function returns
ProcUnlock(t) ==
    /\ threads[t].pc = "unlock_proc"
    /\ locks' = [locks EXCEPT !.proc[threads[t].i] = 0]
    /\ threads' = [threads EXCEPT ![t].i = @ + 1,
                                  ![t].pc = IF threads[t].i + 1 > NPROC
                                            THEN "done" ELSE "lock_proc"]
    /\ last' = Stepped(t, "unlock_proc")
    /\ UNCHANGED <<pc, interrupts, boot_info, mem, PHYSICAL_OFFSET, FRAME_ALLOCATOR,
                   GLOBAL_ALLOCATOR, PROCESS_LIST, NEXT_PID, panicked, mapped, allocated, ops>>

\* a step of thread t inside allocate_process
ThreadStep(t) ==
    \/ ProcLock(t)
    \/ MatchState(t)
    \/ NextPidLock(t)
    \/ AssignSlot(t)
    \/ IncrementPid(t)
    \/ NextPidUnlock(t)
    \/ ProcUnlock(t)

\* The kernel after kernel::init, the process list as the lazy_static
\* builds it.
InitProc ==
    /\ boot_info = [memory_map |-> BootMemoryMap, physical_memory_offset |-> PhysOffset]
    /\ mem = BootTables
    /\ PHYSICAL_OFFSET = Some(boot_info.physical_memory_offset)
    /\ FRAME_ALLOCATOR = Some(BootInfoAllocator_init(boot_info.memory_map))
    /\ InitCommon
    /\ AfterInit

NextProc == \E t \in Threads : CallAllocateProcess(t) \/ ThreadStep(t)

\* Every thread that can take a step takes one in the end: a thread
\* spinning on a mutex runs on, and sees the mutex once it stays free.
SpecProc ==
    /\ InitProc
    /\ [][NextProc]_vars
    /\ \A t \in Threads : WF_vars(ThreadStep(t))

\* the calls create_mapping(&addr, entry, _) made: those of the tests
\* add_valid_entry, add_valid_huge_entry and add_allocation_entry, that of
\* main.rs, and addresses inside the second 2 MiB page and the 1 GiB page
CreateCalls ==
    {FromNat(5), PhysOffset, U64(48879, 57005, 0, 0), FromNat(10),
     VirtAddr_add(PhysOffset, U64(20485, 33, 0, 0)),
     VirtAddr_add(PhysOffset, U64(20485, 16417, 0, 0))}
        \X {PageTableEntry_new(Frame4K(1), PRESENT), PageTableEntry_new(Frame4K(0), PRESENT)}

\* create_mapping(&addr, entry, allocator), with the ZeroAllocator or the
\* locked FRAME_ALLOCATOR
CreateMapping(addr, entry, kind) ==
    /\ ~panicked
    /\ ops < MaxOps
    /\ \E r \in {IF kind = "BootInfoAllocator" /\ FRAME_ALLOCATOR = None
                  THEN Panicked(mem, FRAME_ALLOCATOR)
                  ELSE create_mapping(mem, PHYSICAL_OFFSET, addr, entry,
                                      IF kind = "BootInfoAllocator" THEN FRAME_ALLOCATOR.val
                                      ELSE ZeroAllocator)} :
           /\ mem' = r.mem
           /\ FRAME_ALLOCATOR' = IF kind = "BootInfoAllocator" /\ FRAME_ALLOCATOR # None
                                 THEN Some(r.alloc)
                                 ELSE FRAME_ALLOCATOR
           /\ panicked' = Stops(r.ret)
           /\ last' = [op |-> "create_mapping", addr |-> addr, entry |-> entry, kind |-> kind,
                       ret |-> r.ret, log |-> r.log]
    /\ ops' = ops + 1
    /\ UNCHANGED <<threads, locks, pc, interrupts, boot_info, PHYSICAL_OFFSET, GLOBAL_ALLOCATOR,
                   PROCESS_LIST, NEXT_PID, mapped, allocated>>

\* The mappings made through memory.rs, once kernel::init has run.
InitMemory ==
    /\ boot_info = [memory_map |-> BootMemoryMap, physical_memory_offset |-> PhysOffset]
    /\ mem \in InitialMemories
    /\ PHYSICAL_OFFSET = Some(boot_info.physical_memory_offset)
    /\ FRAME_ALLOCATOR = Some(BootInfoAllocator_init(boot_info.memory_map))
    /\ InitCommon
    /\ AfterInit

NextMemory ==
    \E call \in CreateCalls, kind \in {"ZeroAllocator", "BootInfoAllocator"} :
        CreateMapping(call[1], call[2], kind)

SpecMemory == InitMemory /\ [][NextMemory]_vars

\* The kernel at its entry point, on a machine with few or many usable
\* frames and with clean or stale free frames.
InitKernel ==
    /\ boot_info \in [memory_map : KernelMemoryMaps, physical_memory_offset : {PhysOffset}]
    /\ mem \in {BootTables, WithJunk(BootTables)}
    /\ PHYSICAL_OFFSET = None
    /\ FRAME_ALLOCATOR = None
    /\ InitCommon
    /\ KernelEntry

\* the kernel is at the call `name` of main
At(name) == ~panicked /\ pc \in DOMAIN main /\ main[pc] = name

\* lib.rs line 26: gdt::init()
GdtInit ==
    /\ At("gdt::init")
    /\ pc' = pc + 1
    /\ last' = [op |-> "gdt::init"]
    /\ UNCHANGED <<threads, locks, interrupts, boot_info, mem, PHYSICAL_OFFSET, FRAME_ALLOCATOR,
                   GLOBAL_ALLOCATOR, PROCESS_LIST, NEXT_PID, panicked, mapped, allocated, ops>>

\* lib.rs line 27: interrupts::init_idt()
InitIdt ==
    /\ At("interrupts::init_idt")
    /\ pc' = pc + 1
    /\ last' = [op |-> "interrupts::init_idt"]
    /\ UNCHANGED <<threads, locks, interrupts, boot_info, mem, PHYSICAL_OFFSET, FRAME_ALLOCATOR,
                   GLOBAL_ALLOCATOR, PROCESS_LIST, NEXT_PID, panicked, mapped, allocated, ops>>

\* lib.rs line 28: interrupts::init_pics()
InitPics ==
    /\ At("interrupts::init_pics")
    /\ pc' = pc + 1
    /\ last' = [op |-> "interrupts::init_pics"]
    /\ UNCHANGED <<threads, locks, interrupts, boot_info, mem, PHYSICAL_OFFSET, FRAME_ALLOCATOR,
                   GLOBAL_ALLOCATOR, PROCESS_LIST, NEXT_PID, panicked, mapped, allocated, ops>>

\* lib.rs line 29: allocator::init(&boot_info.memory_map)
KernelAllocatorInit ==
    /\ At("allocator::init")
    /\ pc' = pc + 1
    /\ FRAME_ALLOCATOR' = IF FRAME_ALLOCATOR = None
                          THEN Some(BootInfoAllocator_init(boot_info.memory_map))
                          ELSE FRAME_ALLOCATOR
    /\ last' = [op |-> "allocator::init"]
    /\ UNCHANGED <<threads, locks, interrupts, boot_info, mem, PHYSICAL_OFFSET,
                   GLOBAL_ALLOCATOR, PROCESS_LIST, NEXT_PID, panicked, mapped, allocated, ops>>

\* lib.rs line 30: memory::init(boot_info.physical_memory_offset)
KernelMemoryInit ==
    /\ At("memory::init")
    /\ pc' = pc + 1
    /\ PHYSICAL_OFFSET' = IF PHYSICAL_OFFSET = None
                          THEN Some(boot_info.physical_memory_offset)
                          ELSE PHYSICAL_OFFSET
    /\ last' = [op |-> "memory::init"]
    /\ UNCHANGED <<threads, locks, interrupts, boot_info, mem, FRAME_ALLOCATOR,
                   GLOBAL_ALLOCATOR, PROCESS_LIST, NEXT_PID, panicked, mapped, allocated, ops>>

\* lib.rs line 31: process::init_process()
InitProcess ==
    /\ At("process::init_process")
    /\ pc' = pc + 1
    /\ last' = [op |-> "process::init_process"]
    /\ UNCHANGED <<threads, locks, interrupts, boot_info, mem, PHYSICAL_OFFSET, FRAME_ALLOCATOR,
                   GLOBAL_ALLOCATOR, PROCESS_LIST, NEXT_PID, panicked, mapped, allocated, ops>>

\* lib.rs line 32: x86_64::instructions::interrupts::enable()
InterruptsEnable ==
    /\ At("interrupts::enable")
    /\ pc' = pc + 1
    /\ interrupts' = TRUE
    /\ last' = [op |-> "interrupts::enable"]
    /\ UNCHANGED <<threads, locks, boot_info, mem, PHYSICAL_OFFSET, FRAME_ALLOCATOR,
                   GLOBAL_ALLOCATOR, PROCESS_LIST, NEXT_PID, panicked, mapped, allocated, ops>>

\* heap_allocation.rs lines 19-22: FRAME_ALLOCATOR.wait(), or the panic
FrameAllocatorWait ==
    /\ At("FRAME_ALLOCATOR.wait")
    /\ pc' = pc + 1
    /\ panicked' = (FRAME_ALLOCATOR = None)
    /\ last' = [op |-> "FRAME_ALLOCATOR.wait", ret |-> FRAME_ALLOCATOR]
    /\ UNCHANGED <<threads, locks, interrupts, boot_info, mem, PHYSICAL_OFFSET, FRAME_ALLOCATOR,
                   GLOBAL_ALLOCATOR, PROCESS_LIST, NEXT_PID, mapped, allocated, ops>>

\* heap_allocation.rs lines 23-27: init_heap(&mut *alloc.lock()), and the
\* panic of main when it returns Err
MainInitHeap(u) ==
    /\ At("init_heap")
    /\ pc' = pc + 1
    /\ \E r \in {init_heap(mem, PHYSICAL_OFFSET, FRAME_ALLOCATOR.val, u)} :
           /\ mem' = r.mem
           /\ FRAME_ALLOCATOR' = Some(r.alloc)
           /\ GLOBAL_ALLOCATOR' = IF r.ret = "Ok"
                                  THEN Some([start |-> HEAP_START, size |-> HEAP_SIZE])
                                  ELSE GLOBAL_ALLOCATOR
           /\ panicked' = (r.ret # "Ok")
           /\ last' = [op |-> "init_heap", ret |-> r.ret, data |-> r.data, log |-> r.log,
                       offset |-> PHYSICAL_OFFSET, allocator |-> FRAME_ALLOCATOR]
    /\ UNCHANGED <<threads, locks, interrupts, boot_info, PHYSICAL_OFFSET, PROCESS_LIST,
                   NEXT_PID, mapped, allocated, ops>>

NextKernel ==
    \/ GdtInit
    \/ InitIdt
    \/ InitPics
    \/ KernelAllocatorInit
    \/ KernelMemoryInit
    \/ InitProcess
    \/ InterruptsEnable
    \/ FrameAllocatorWait
    \/ \E u \in UninitFrames : MainInitHeap(u)

SpecKernel == InitKernel /\ [][NextKernel]_vars

\* the longest run of consecutive pages a range is taken from
MaxRun == 6

\* The page whose address is 4096 * n + 2^32 * w3 + 2^48 * w4.
PageOf(n, w3, w4) == U64(4096 * (n % 16), (n \div 16) % LimbBase, w3 + n \div 1048576, w4)

\* MaxRun consecutive pages from page n0 of the 4 GiB block <<w3, w4>>
Run(n0, w3, w4) == [i \in 1..MaxRun |-> PageOf(n0 + i - 1, w3, w4)]

\* Runs of pages in increasing address order: from address 0 (the range of
\* the tests), across 2^28, across 2^32, from HEAP_START, and the last pages
\* of the address space.
Runs ==
    <<Run(0, 0, 0), Run(65534, 0, 0), Run(1048574, 0, 0), Run(279616, 17476, 0),
      Run(1048576 - MaxRun, 65535, 65535)>>

\* PageRangeInclusive::new(start, end) for two pages of one run, or for a
\* start in a run above the run of the end
InitIter ==
    /\ boot_info = [memory_map |-> BootMemoryMap, physical_memory_offset |-> PhysOffset]
    /\ mem = EmptyTables
    /\ PHYSICAL_OFFSET = None
    /\ FRAME_ALLOCATOR = None
    /\ GLOBAL_ALLOCATOR = None
    /\ PROCESS_LIST = init_process_list_internal
    /\ NEXT_PID = 0
    /\ panicked = FALSE
    /\ mapped = {}
    /\ allocated = <<>>
    /\ ops = 0
    /\ threads = [t \in Threads |-> NotCalled]
    /\ locks = Unlocked
    /\ KernelEntry
    /\ \E r1 \in 1..Len(Runs), r2 \in 1..Len(Runs), i \in 1..MaxRun, j \in 1..MaxRun :
           /\ r1 >= r2
           /\ last = [op |-> "new", from |-> <<r1, i>>, to |-> <<r2, j>>,
                      range |-> PageRangeInclusive_new(Runs[r1][i], Runs[r2][j]),
                      yielded |-> <<>>, done |-> FALSE]

\* one turn of `for page in page_range`: a call of next, and the end of the
\* loop when it returns None
IterNext ==
    /\ last.op \in {"new", "next"}
    /\ ~last.done
    /\ Len(last.yielded) <= MaxRun
    /\ \E r \in {PageRangeInclusive_next(last.range)} :
           last' = [last EXCEPT !.op = "next", !.range = r.self,
                                !.yielded = IF r.ret = None THEN @ ELSE Append(@, r.ret.val),
                                !.done = (r.ret = None)]
    /\ UNCHANGED <<threads, locks, pc, interrupts, boot_info, mem, PHYSICAL_OFFSET,
                   FRAME_ALLOCATOR, GLOBAL_ALLOCATOR, PROCESS_LIST, NEXT_PID, panicked, mapped,
                   allocated, ops>>

NextIter == IterNext

\* the loop goes on calling next until it returns None
SpecIter == InitIter /\ [][NextIter]_vars /\ WF_vars(NextIter)
\* ------------------------------------------------------------------------
\* Properties
\* ------------------------------------------------------------------------

\* translate_addr on the active root table, in the current state
Translate(addr) == translate_addr(mem, PHYSICAL_OFFSET, Self, addr)

\* the events of a log with the given name
Events(log, ev) == {k \in 1..Len(log) : log[k].ev = ev}

\* C1: whenever map_page(P, PTE(f, PRESENT), allocator) has just returned
\* Ok, translate_addr(P + d) is Some(f.start + d) for the offsets d of the
\* page, whether or not tables were allocated during the call.
C1_MapThenTranslate ==
    (last.op = "map_page" /\ last.ret = "Ok") =>
        \A d \in Offsets :
            Translate(VirtAddr_add(last.page, FromNat(d)))
                = Some(WAdd(PageTableEntry_addr(last.entry), FromNat(d)))

\* C2: a map_page(P, e2) that follows a successful map_page(P, e1) returns
\* PageAlreadyMapped, and P still translates to the frame of e1.
C2_RemapRejected ==
    (last.op = "map_page" /\ last.was_mapped # {}) =>
        /\ last.ret = "PageAlreadyMapped"
        /\ \A e1 \in last.was_mapped : Translate(last.page) = Some(PageTableEntry_addr(e1))

\* the low 21 bits (2 MiB frame) or the low 30 bits (1 GiB frame) of an address
LowBits(addr, size) ==
    WAnd(addr, IF size = "2M" THEN U64(65535, 31, 0, 0) ELSE U64(65535, 16383, 0, 0))

\* C3: when the walk of translate_addr stops at a PRESENT huge entry, the
\* result is the start of that huge frame plus the low 21 bits (2 MiB) or
\* the low 30 bits (1 GiB) of the address.
C3_HugeResidual ==
    (last.op = "translate_addr" /\ PHYSICAL_OFFSET # None) =>
        LET fr == Walk(mem, PHYSICAL_OFFSET, Self, last.addr, 3)
        IN  (fr.tag = "Some" /\ fr.val.size # "4K") =>
                last.ret = Some(WAdd(fr.val.start, LowBits(last.addr, fr.val.size)))

\* C4: for an entry with PRESENT and HUGE_PAGE, frame(2) is the 1 GiB frame
\* and frame(1) the 2 MiB frame that contains the entry's address, and
\* frame(0) and frame(3) panic.
C4_HugeDecode ==
    (last.op = "frame" /\ Contains(PageTableEntry_flags(last.entry), WOr(PRESENT, HUGE_PAGE))) =>
        CASE last.level = 2 ->
               last.ret = Some(PhysFrame("1G", WAnd(PageTableEntry_addr(last.entry),
                                                    U64(0, 49152, 65535, 65535))))
          [] last.level = 1 ->
               last.ret = Some(PhysFrame("2M", WAnd(PageTableEntry_addr(last.entry),
                                                    U64(0, 65504, 65535, 65535))))
          [] OTHER -> last.ret = Panic

\* the first address of every page that meets [HEAP_START, HEAP_START +
\* HEAP_SIZE), and the last address of the range
HeapAddresses ==
    {VirtAddr_add(HEAP_START, FromNat(4096 * k)) : k \in 0..((HEAP_SIZE - 1) \div 4096)}
        \cup {VirtAddr_add(HEAP_START, FromNat(HEAP_SIZE - 1))}

\* C5: when init_heap has just returned Ok, every page that meets the heap
\* range translates to Some, the page of HEAP_START + HEAP_SIZE - 1 included.
C5_HeapMapped ==
    (last.op = "init_heap" /\ last.ret = "Ok") =>
        \A a \in HeapAddresses : Translate(a).tag = "Some"

\* the slots of a process list that are Available
AvailableSlots(list) == {i \in 1..Len(list) : list[i].state = "Available"}

\* C6: one call of allocate_process changes exactly the lowest Available
\* slot (Ready, the PID counter's value, a fresh empty page table), leaves
\* every other slot alone and adds one to the PID counter.
C6_OneSlot ==
    (last.op = "allocate_process" /\ AvailableSlots(last.list) # {}) =>
        LET i == CHOOSE a \in AvailableSlots(last.list) :
                     \A b \in AvailableSlots(last.list) : a <= b
        IN  /\ PROCESS_LIST[i] = [last.list[i] EXCEPT !.state = "Ready",
                                                      !.process_id = last.next_pid,
                                                      !.pagetable = PageTable_new]
            /\ \A j \in (1..Len(last.list)) \ {i} : PROCESS_LIST[j] = last.list[j]
            /\ NEXT_PID = last.next_pid + 1

\* the calls of allocate so far that returned a frame
Returned == {k \in 1..Len(allocated) : allocated[k] # None}

\* no two results of allocate that are frames have the same start address
DistinctFrames ==
    \A i, j \in Returned : i # j => allocated[i].val.start # allocated[j].val.start

\* no frame lies in two Usable regions of the memory map
UsableDisjoint(memory_map) ==
    \A i, j \in 1..Len(memory_map) :
        (i # j /\ memory_map[i].usable /\ memory_map[j].usable) =>
            \A n \in 0..MaxFrameNo :
                ~(/\ memory_map[i].start_frame <= n /\ n < memory_map[i].end_frame
                  /\ memory_map[j].start_frame <= n /\ n < memory_map[j].end_frame)

\* C7 (as stated): any two calls of allocate that return a frame return
\* frames with different start addresses, for every memory map.
C7_DistinctFrames == DistinctFrames

\* C7 (amended): over a memory map whose Usable regions do not overlap, any
\* two calls of allocate that return a frame return frames with different
\* start addresses.
C7_DistinctFramesOnDisjointRegions ==
    UsableDisjoint(boot_info.memory_map) => DistinctFrames

\* C7: two frames were returned, from two Usable regions that do not overlap
C7_Witness ==
    /\ UsableDisjoint(boot_info.memory_map)
    /\ Len(boot_info.memory_map) = 2
    /\ \A i \in 1..2 : /\ boot_info.memory_map[i].usable
                       /\ boot_info.memory_map[i].start_frame < boot_info.memory_map[i].end_frame
    /\ Cardinality(Returned) >= 2

\* the number of frames a region adds to the flattened sequence
RegionLen(r) ==
    IF r.usable /\ r.end_frame > r.start_frame THEN r.end_frame - r.start_frame ELSE 0

\* the number of frames the regions 1..i add
RECURSIVE FramesUpTo(_, _)
FramesUpTo(memory_map, i) ==
    IF i = 0 THEN 0 ELSE FramesUpTo(memory_map, i - 1) + RegionLen(memory_map[i])

\* the k-th (from 0) address of the flattened sequence: regions in order,
\* the Usable ones only, [start, end) in steps of 4096
FlatAt(memory_map, k) ==
    LET i == CHOOSE n \in 1..Len(memory_map) :
                 FramesUpTo(memory_map, n - 1) <= k /\ k < FramesUpTo(memory_map, n)
    IN  4096 * (memory_map[i].start_frame + (k - FramesUpTo(memory_map, i - 1)))

\* C8: the k-th call of allocate since init (k from 0) returns the k-th
\* frame of the flattened sequence of the Usable regions, and none exactly
\* when k is at or past the length of that sequence.
C8_KthFrame ==
    \A k \in 1..Len(allocated) :
        allocated[k] =
            IF k - 1 < FramesUpTo(boot_info.memory_map, Len(boot_info.memory_map))
            THEN Some(PhysFrame("4K", FromNat(FlatAt(boot_info.memory_map, k - 1))))
            ELSE None

\* C8: a region that is not Usable precedes a Usable one, and allocate has
\* returned a frame and then none
C8_Witness ==
    /\ Len(boot_info.memory_map) = 2
    /\ ~boot_info.memory_map[1].usable
    /\ boot_info.memory_map[1].start_frame < boot_info.memory_map[1].end_frame
    /\ boot_info.memory_map[2].usable
    /\ Returned # {}
    /\ \E k \in 1..Len(allocated) : allocated[k] = None

\* C9: when allocate returns none at a non-present entry of level 3, 2 or 1,
\* map_page returns FrameAllocation, and no slot it wrote holds new_entry.
C9_FrameAllocationError ==
    (last.op = "map_page" /\ Events(last.log, "alloc_failed") # {}) =>
        /\ last.ret = "FrameAllocation"
        /\ Events(last.log, "install") = {}
        /\ \A w \in last.written : ReadEntry(mem, w[1], w[2]) # last.entry

\* C9: allocate returned none below the root level, after a descent
C9_Witness ==
    /\ last.op = "map_page"
    /\ last.ret = "FrameAllocation"
    /\ \E k \in Events(last.log, "alloc_failed") : last.log[k].level \in {1, 2}
    /\ Events(last.log, "descend") # {}

\* C10: every table map_page allocates is all-zero at the moment it is
\* linked into its parent.
C10_FreshTablesZero ==
    last.op = "map_page" =>
        \A k \in Events(last.log, "link") : last.log[k].zero

\* ------------------------------------------------------------------------
\* The 4-level walk of an address, computed from the bits of the entries
\* ------------------------------------------------------------------------

\* bit i of a u64
BitOf(w, i) == (w[(i \div 16) + 1] \div Pow2(i % 16)) % 2

\* bits lo .. lo + 8 of a u64, as a number
IndexBits(w, lo) ==
    BitOf(w, lo) + 2 * BitOf(w, lo + 1) + 4 * BitOf(w, lo + 2) + 8 * BitOf(w, lo + 3)
    + 16 * BitOf(w, lo + 4) + 32 * BitOf(w, lo + 5) + 64 * BitOf(w, lo + 6)
    + 128 * BitOf(w, lo + 7) + 256 * BitOf(w, lo + 8)

IsPresent(entry) == BitOf(entry, 0) = 1

IsHuge(entry) == BitOf(entry, 7) = 1

\* the frame number in bits 12..51 of an entry, when it is a frame of RAM
PointsIntoRAM(entry) ==
    /\ entry[3] = 0
    /\ entry[4] % 16 = 0
    /\ (entry[1] \div 4096) + 16 * entry[2] \in RAM

NextTable(entry) == (entry[1] \div 4096) + 16 * entry[2]

\* the slots <<table, index>> on the path of addr from `table` at `level`
\* down: the path ends at an entry that is not PRESENT, at a huge entry, at
\* the leaf, or at an entry that points outside RAM
RECURSIVE PathFrom(_, _, _, _)
PathFrom(m, table, addr, level) ==
    LET index == IndexBits(addr, 12 + 9 * level)
        entry == ReadEntry(m, table, index)
    IN  IF level = 0 \/ ~IsPresent(entry) \/ IsHuge(entry) \/ ~PointsIntoRAM(entry)
        THEN <<<<table, index>>>>
        ELSE <<<<table, index>>>> \o PathFrom(m, NextTable(entry), addr, level - 1)

\* the path of addr from the active root table
Path(m, addr) == PathFrom(m, Self, addr, 3)

\* the entry in the last slot of a path
PathEnd(m, path) == ReadEntry(m, path[Len(path)][1], path[Len(path)][2])

\* the path of the page ends at a PRESENT huge entry of level 2 or 1
EndsAtHuge(m, page) ==
    LET path == Path(m, page)
    IN  /\ Len(path) \in {2, 3}
        /\ IsPresent(PathEnd(m, path))
        /\ IsHuge(PathEnd(m, path))

\* C11: a map_page for a page whose walk ends at a PRESENT huge entry
\* returns PageAlreadyMapped and writes nothing: the huge entry stays and
\* new_entry is installed nowhere.
C11_HugeConflict ==
    [][(last'.op = "map_page" /\ EndsAtHuge(mem, last'.page))
          => (last'.ret = "PageAlreadyMapped" /\ mem' = mem)]_vars

\* the heap pages of an init_heap call for which no frame was left
\* ("unwrap") or map_page returned an error
HeapFailures(data) ==
    {k \in 1..Len(data) : data[k].ret \in {"unwrap", "FrameAllocation", "PageAlreadyMapped"}}

\* C12: when, during init_heap, map_page returns an error for a heap page or
\* the allocator has no frame left for a heap page, init_heap returns an
\* error value (it does not panic) and the heap manager is not initialised.
C12_HeapFailureReturned ==
    (last.op = "init_heap" /\ HeapFailures(last.data) # {}) =>
        /\ last.ret = "Err"
        /\ GLOBAL_ALLOCATOR = None

\* C13: once the Usable frames are used up, allocate returns none at every
\* call and the kernel does not stop, whatever the memory map: empty,
\* without a Usable region, or with Usable regions.
C13_ExhaustedReturnsNone ==
    /\ ~panicked
    /\ \A k \in 1..Len(allocated) :
           k > FramesUpTo(boot_info.memory_map, Len(boot_info.memory_map))
               => allocated[k] = None

\* C13: a frame was returned, and the two calls that followed returned none
C13_Witness ==
    /\ Len(allocated) >= 3
    /\ allocated[Len(allocated) - 2] # None
    /\ allocated[Len(allocated) - 1] = None
    /\ allocated[Len(allocated)] = None

\* C14: once memory::init has run, a translate_addr whose path comes to an
\* entry that is not PRESENT returns none, reads the slots of the path down
\* to that entry and no other, and does not stop the kernel; and it returns
\* Some only when every entry on the path is PRESENT.
C14_MissingEntryIsNone ==
    (last.op = "translate_addr" /\ PHYSICAL_OFFSET # None) =>
        LET path == Path(mem, last.addr)
        IN  /\ ~IsPresent(PathEnd(mem, path)) =>
                  /\ last.ret = None
                  /\ last.reads = path
                  /\ ~panicked
            /\ last.ret.tag = "Some" =>
                  \A k \in 1..Len(path) : IsPresent(ReadEntry(mem, path[k][1], path[k][2]))

\* C14: the walk found the entry that is not PRESENT below the root table
C14_Witness ==
    /\ last.op = "translate_addr"
    /\ PHYSICAL_OFFSET # None
    /\ last.ret = None
    /\ Len(last.reads) >= 2
    /\ ~IsPresent(PathEnd(mem, Path(mem, last.addr)))

\* C15: for a 4 KiB frame f and flags F without HUGE_PAGE, at every level,
\* PageTableEntry::new(f, F).frame(level) is Some(the 4 KiB frame that
\* starts at f.start) when F has PRESENT and none when it has not; no flag
\* bit, bit 63 included, shows in the decoded address.
C15_EntryRoundTrip ==
    (last.op = "new_frame" /\ BitOf(last.flags, 7) = 0) =>
        last.ret = IF BitOf(last.flags, 0) = 1
                   THEN Some(PhysFrame("4K", last.frame.start))
                   ELSE None

\* C15: a frame above 4 GiB was encoded with PRESENT, NO_EXECUTE and the
\* other flags but HUGE_PAGE, and decoded
C15_Witness ==
    /\ last.op = "new_frame"
    /\ last.flags = U64(383, 0, 0, 32768)
    /\ last.frame.start = U64(61440, 65535, 65535, 15)
    /\ last.ret.tag = "Some"

\* no two slots that are not Available hold the same process id
DistinctPids ==
    \A i, j \in 1..Len(PROCESS_LIST) :
        (i # j /\ PROCESS_LIST[i].state # "Available" /\ PROCESS_LIST[j].state # "Available")
            => PROCESS_LIST[i].process_id # PROCESS_LIST[j].process_id

\* C16: the PID counter never decreases, only a step of allocate_process
\* changes it, and in every reachable state the slots that are not
\* Available hold process ids that differ from one another.
C16_PidCounter ==
    /\ []DistinctPids
    /\ [][/\ NEXT_PID' >= NEXT_PID
          /\ NEXT_PID' # NEXT_PID => last'.op = "allocate_process"]_vars

\* C16: allocate_process has run and two slots are in use
C16_Witness ==
    /\ NEXT_PID > 0
    /\ Cardinality({i \in 1..Len(PROCESS_LIST) : PROCESS_LIST[i].state # "Available"}) >= 2
    /\ last.op = "allocate_process"

\* C17: the first memory::init(o1) stores o1; from then on no step changes
\* the stored offset, a later memory::init(o2) included, and get_offset
\* returns the stored offset.
C17_OffsetWriteOnce ==
    [][/\ PHYSICAL_OFFSET # None => PHYSICAL_OFFSET' = PHYSICAL_OFFSET
       /\ (PHYSICAL_OFFSET = None /\ last'.op = "memory_init")
             => PHYSICAL_OFFSET' = Some(last'.arg)
       /\ (PHYSICAL_OFFSET # None /\ last'.op = "get_offset")
             => last'.ret = PHYSICAL_OFFSET]_vars

\* C17: a second memory::init was given another offset and the first stayed
C17_Witness ==
    /\ last.op = "memory_init"
    /\ PHYSICAL_OFFSET # None
    /\ PHYSICAL_OFFSET # Some(last.arg)

\* the root entry of addr is PRESENT: the walk has a table to load
RootPresent(m, addr) == IsPresent(ReadEntry(m, Self, IndexBits(addr, 39)))

\* C18: before memory::init, get_offset and load_table panic, translate_addr
\* and map_page panic as soon as they have a table to load and never return
\* an address or Ok; before allocator::init, a caller of the global frame
\* allocator (init_heap, map_page with FRAME_ALLOCATOR) panics and nothing
\* is written.
C18_PanicBeforeInit ==
    [][/\ (PHYSICAL_OFFSET = None /\ last'.op \in {"get_offset", "load_table"})
             => (last'.ret = Panic /\ panicked')
       /\ (PHYSICAL_OFFSET = None /\ last'.op = "translate_addr")
             => /\ last'.ret.tag # "Some"
                /\ RootPresent(mem, last'.addr) => (last'.ret = Panic /\ panicked')
       /\ (PHYSICAL_OFFSET = None /\ last'.op = "map_page")
             => /\ last'.ret # "Ok"
                /\ (RootPresent(mem, last'.page) \/ RootPresent(mem', last'.page))
                      => (last'.ret = "Panic" /\ panicked')
       /\ (FRAME_ALLOCATOR = None
             /\ \/ last'.op = "init_heap"
                \/ last'.op = "map_page" /\ last'.kind = "BootInfoAllocator")
             => (last'.ret = "Panic" /\ panicked' /\ mem' = mem /\ FRAME_ALLOCATOR' = None)]_vars

\* C18: before memory::init, with the frame allocator ready, map_page linked
\* a new table and panicked when it went to load it
C18_Witness ==
    /\ PHYSICAL_OFFSET = None
    /\ FRAME_ALLOCATOR # None
    /\ last.op = "map_page"
    /\ last.ret = "Panic"
    /\ Events(last.log, "link") # {}
    /\ panicked

\* C19: for every address A and level l of 0..3, A.page_table_index(l) is
\* the number made of the bits 12 + 9l .. 20 + 9l of A, that is
\* (A >> (12 + 9l)) & 0x1FF: the cast to 16 bits before the reduction
\* modulo 512 loses none of them.
C19_PageTableIndex ==
    last.op = "page_table_index" =>
        last.ret = IndexBits(last.addr, 12 + 9 * last.level)

\* C19: the address of the tests gave their four indices, the shifted value
\* being wider than 16 bits at the lower levels
C19_Witness ==
    /\ last.op = "page_table_index"
    /\ last.addr = U64(53828, 48980, 58999, 0)
    /\ last.ret = <<333, 506, 478, 460>>[last.level + 1]
    /\ last.level = 0

\* the low 12 bits of a u64, as a number
OffsetBits(w) ==
    IndexBits(w, 0) + 512 * (BitOf(w, 9) + 2 * BitOf(w, 10) + 4 * BitOf(w, 11))

\* C20: for every address A, A.page_offset() is the low 12 bits of A,
\* A.align_down() is A with the bits 0..11 cleared and every other bit
\* kept, and the page offset of A.align_down() is 0.
C20_OffsetAndAlign ==
    /\ last.op = "page_offset" => last.ret = OffsetBits(last.addr)
    /\ last.op = "align_down" =>
          /\ \A i \in 0..63 :
                 BitOf(last.ret, i) = IF i < 12 THEN 0 ELSE BitOf(last.addr, i)
          /\ last.ret_offset = 0

\* C20: an address with bits set below bit 12 and above bit 47 was aligned
C20_Witness ==
    /\ last.op = "align_down"
    /\ OffsetBits(last.addr) = 4095
    /\ last.addr[4] = 65535
    /\ last.ret # last.addr

\* the pages a range between two pages of the runs has to yield
ExpectedPages(from, to) ==
    IF from[1] = to[1] /\ from[2] < to[2]
    THEN [k \in 1..(to[2] - from[2]) |-> Runs[from[1]][from[2] + k - 1]]
    ELSE <<>>

\* C21: PageRangeInclusive(s, e) yields the pages s, s+1, ... in increasing
\* address order and stops before e: at every moment of the loop the pages
\* yielded so far are the first pages of that list; when next has returned
\* None they are (e - s) / 4096 pages for e > s and none for e <= s; and the
\* loop always comes to the call that returns None.
C21_PageRange ==
    /\ [](last.op \in {"new", "next"}
            => /\ Len(last.yielded) <= Len(ExpectedPages(last.from, last.to))
               /\ last.yielded = SubSeq(ExpectedPages(last.from, last.to), 1, Len(last.yielded))
               /\ last.done
                    => /\ last.yielded = ExpectedPages(last.from, last.to)
                       /\ ~WLess(last.range.start, last.range.end)
                       /\ (FitsNat(Runs[last.from[1]][last.from[2]])
                           /\ FitsNat(Runs[last.to[1]][last.to[2]]))
                            => Len(last.yielded)
                                 = IF ToNat(Runs[last.to[1]][last.to[2]])
                                        > ToNat(Runs[last.from[1]][last.from[2]])
                                   THEN (ToNat(Runs[last.to[1]][last.to[2]])
                                         - ToNat(Runs[last.from[1]][last.from[2]])) \div 4096
                                   ELSE 0)
    /\ <>(last.op \in {"new", "next"} /\ last.done)

\* the range of the tests, from page 0 to the page of address 20 000, has
\* yielded its four pages and ended
C21_Witness ==
    /\ last.op = "next"
    /\ last.done
    /\ last.from = <<1, 1>>
    /\ Runs[last.to[1]][last.to[2]] = Page_containing_address(FromNat(20000))
    /\ last.yielded = <<FromNat(0), FromNat(4096), FromNat(8192), FromNat(12288)>>

\* bit i of 4096 * k, for a k below 2^52
ShiftedBit(k, i) == IF i < 12 THEN 0 ELSE BitOf(k, i - 12)

\* the bits i .. 63 of p + 4096 * k added column by column with the carry c
\* into column i, followed by the carry out of column 63
RECURSIVE SumBits(_, _, _, _)
SumBits(p, k, i, c) ==
    IF i = 64 THEN <<c>>
    ELSE <<(BitOf(p, i) + ShiftedBit(k, i) + c) % 2>>
         \o SumBits(p, k, i + 1, (BitOf(p, i) + ShiftedBit(k, i) + c) \div 2)

\* p + 4096 * k does not exceed 64 bits
SumFits(p, k) ==
    /\ \A i \in 52..63 : BitOf(k, i) = 0
    /\ SumBits(p, k, 0, 0)[65] = 0

\* C22: for a page P and a count k whose sum P + 4096 * k fits 64 bits,
\* P + k is the page at that sum, bit for bit, and its low twelve bits are
\* zero; the addition does not panic.
C22_PageAdd ==
    (last.op = "page_add" /\ \A i \in 52..63 : BitOf(last.rhs, i) = 0)
        => LET sum == SumBits(last.page, last.rhs, 0, 0)
           IN  sum[65] = 0
                 => /\ last.ret.tag = "Some"
                    /\ [i \in 1..64 |-> BitOf(last.ret.val, i - 1)] = SubSeq(sum, 1, 64)
                    /\ \A i \in 0..11 : BitOf(last.ret.val, i) = 0

\* the page of address 4096 plus 5 is the page of address 24 576 (the test
\* add_4kb_page), and a sum that carries through every limb has been made
C22_Witness ==
    /\ last.op = "page_add"
    /\ SumFits(last.page, last.rhs)
    /\ \/ /\ last.page = FromNat(4096)
          /\ last.rhs = FromNat(5)
          /\ last.ret = Some(FromNat(24576))
       \/ /\ last.page = U64(61440, 65535, 65535, 4095)
          /\ last.rhs = FromNat(1)
          /\ last.ret = Some(U64(0, 0, 0, 4096))

\* C23: when map_page finds a PRESENT entry that is not huge at level 3, 2
\* or 1, it goes on in the table of the frame that entry points to; and the
\* slot of level 0 it writes new_entry into is the fourth slot of the path
\* of the page from the root, in the hierarchy the call leaves behind.
C23_WalkFollowsEntries ==
    last.op = "map_page"
        => /\ \A k \in Events(last.log, "descend") :
                  last.log[k].level > 0
                      => last.log[k].loaded = last.log[k].entry_frame
           /\ \A k \in Events(last.log, "install") :
                  last.log[k].level = 0
                      => /\ Len(Path(mem, last.page)) = 4
                         /\ Path(mem, last.page)[4] = <<last.log[k].table, last.log[k].index>>

\* the writes of a map_page call, in order: the positions in its log of the
\* links and of the installation of new_entry
Writes(log) == Events(log, "link") \cup Events(log, "install")

Requests(log) == Events(log, "link") \cup Events(log, "alloc_failed")

\* bits 0 and 1 (PRESENT, WRITABLE) set, no other flag bit, and the bits
\* 12..51 those of the frame's address
IsLinkTo(entry, frame) ==
    /\ BitOf(entry, 0) = 1 /\ BitOf(entry, 1) = 1
    /\ \A i \in (2..11) \cup (52..63) : BitOf(entry, i) = 0
    /\ \A i \in 12..51 : BitOf(entry, i) = BitOf(frame.start, i)

\* C25: every entry a map_page call writes at level 3, 2 or 1 has the flags
\* PRESENT and WRITABLE and no other, and points to the frame the allocator
\* has just returned (the next frame of the usable regions); the call asks
\* the allocator for at most three frames, and for none when the entries of
\* the page's path at the levels 3, 2 and 1 are all PRESENT before the call.
C25_IntermediateEntries ==
    [][last'.op = "map_page"
         => /\ \A k \in Events(last'.log, "link") :
                   /\ last'.log[k].level \in 1..3
                   /\ IsLinkTo(last'.log[k].entry, last'.log[k].frame)
                   /\ ReadEntry(mem', last'.log[k].table, last'.log[k].index)
                        \in {last'.log[k].entry, last'.entry}
                   /\ last'.log[k].frame
                        = PhysFrame("4K", FromNat(FlatAt(boot_info.memory_map,
                              FRAME_ALLOCATOR.val.next
                              + Cardinality({j \in Events(last'.log, "link") : j < k}))))
            /\ Cardinality(Requests(last'.log)) <= 3
            /\ Len(Path(mem, last'.page)) = 4 => Requests(last'.log) = {}]_vars

C27_BootOrder ==
    /\ [](/\ PHYSICAL_OFFSET # None => FRAME_ALLOCATOR # None
          /\ interrupts => (PHYSICAL_OFFSET # None /\ FRAME_ALLOCATOR # None))
    /\ [][/\ last'.op = "memory::init" => FRAME_ALLOCATOR # None
          /\ (interrupts' /\ ~interrupts)
                => (last'.op = "interrupts::enable"
                    /\ PHYSICAL_OFFSET # None /\ FRAME_ALLOCATOR # None)
          /\ last'.op = "init_heap"
                => (PHYSICAL_OFFSET # None /\ FRAME_ALLOCATOR # None /\ pc > Len(kernel_init))]_vars

\* main has run kernel::init, with interrupts enabled at its end, and the
\* heap bootstrap after it
C27_Witness ==
    /\ pc = Len(main) + 1
    /\ interrupts
    /\ last.op = "init_heap"
    /\ last.offset # None /\ last.allocator # None
    /\ last.ret = "Ok"

\* C28: whenever create_mapping(addr, PTE(f, PRESENT), allocator) has just
\* returned, the translate_addr of memory.rs maps addr to f.start plus the
\* page offset of addr; and when the call ended at a huge-page slot, that
\* slot holds the entry the caller passed.
C28_CreateThenTranslate ==
    (last.op = "create_mapping" /\ last.ret = "Ok")
        => /\ memory_translate_addr(mem, PHYSICAL_OFFSET, last.addr)
                = Some(WAdd(PageTableEntry_addr(last.entry), FromNat(page_offset(last.addr))))
           /\ \A k \in Events(last.log, "huge") :
                  ReadEntry(mem, last.log[k].table, last.log[k].index) = last.entry

\* the addresses translate_addr is compared at before and after a call: the
\* addresses of the tests, every page offset tried inside the page of the
\* call, and addresses at 1 GiB under the root slots 0 and 3
ProbeAddresses(page) ==
    Addresses \cup {VirtAddr_add(page, FromNat(d)) : d \in Offsets}
              \cup {U64(0, 16384, 0, 0), U64(5, 16384, 0, 0), U64(0, 16384, 384, 0)}

\* C29: a map_page call that returns PageAlreadyMapped or FrameAllocation
\* leaves translate_addr as it was, for every address, whatever the call
\* allocated and linked before it failed.
C29_ErrorKeepsTranslations ==
    [][(last'.op = "map_page" /\ last'.ret \in {"PageAlreadyMapped", "FrameAllocation"})
          => \A addr \in ProbeAddresses(last'.page) :
                 translate_addr(mem', PHYSICAL_OFFSET', Self, addr)
                   = translate_addr(mem, PHYSICAL_OFFSET, Self, addr)]_vars

InPage(addr, page) == Page_containing_address(addr) = page

\* the canonical address of the first byte of the page with these four indices
IndexAddress(i3, i2, i1, i0) ==
    U64((i0 % 16) * 4096,
        (i0 \div 16) + i1 * 32 + (i2 % 4) * 16384,
        (i2 \div 4) + i3 * 128,
        IF i3 >= 256 THEN 65535 ELSE 0)

\* the addresses whose walk uses, at every level, index 0 or one of the
\* indices of the page: the slots a call for the page may touch in any table
Neighbours(page) ==
    LET I == {0} \cup {page_table_index(page, l) : l \in 0..3}
    IN  {IndexAddress(i3, i2, i1, i0) : i3 \in I, i2 \in I, i1 \in I, i0 \in I}

\* C30: a successful map_page(P, e, allocator) changes the translation of
\* addresses in page P only: every address outside P translates as before the
\* call, and no slot the call wrote held a PRESENT entry before it.
C30_OnlyPageChanges ==
    [][(last'.op = "map_page" /\ last'.ret = "Ok")
          => /\ \A addr \in ProbeAddresses(last'.page) \cup Neighbours(last'.page) :
                    ~InPage(addr, last'.page)
                        => translate_addr(mem', PHYSICAL_OFFSET', Self, addr)
                             = translate_addr(mem, PHYSICAL_OFFSET, Self, addr)
             /\ \A w \in last'.written :
                    ~IsPresent(ReadEntry(mem, w[1], w[2]))]_vars

\* the frames init_heap took for heap pages, in page order (line 35)
HeapDataFrames(data) ==
    LET got == {k \in 1..Len(data) : data[k].frame # None}
    IN  [k \in got |-> data[k].frame]

\* the frames map_page took for new tables during the call, in order
\* (pagetable.rs 138-148)
HeapTableFrames(log) == [k \in Events(log, "link") |-> log[k].frame]

\* C31: in init_heap with the BootInfoAllocator, the frames taken for heap
\* pages and the frames taken for new page tables are pairwise distinct: no
\* two heap pages get the same frame, no two new tables share a frame, and
\* no frame is both the frame of a heap page and a new table.
C31_HeapFramesDistinct ==
    last.op = "init_heap"
       => LET d == HeapDataFrames(last.data)
              t == HeapTableFrames(last.log)
          IN  /\ \A i, j \in DOMAIN d : d[i].start = d[j].start => i = j
              /\ \A i, j \in DOMAIN t : t[i].start = t[j].start => i = j
              /\ \A i \in DOMAIN d : \A j \in DOMAIN t : d[i].start # t[j].start

\* init_heap has mapped every heap page and has allocated tables on the way
C31_Witness ==
    /\ last.op = "init_heap"
    /\ last.ret = "Ok"
    /\ Len(last.data) = Len(HeapPages)
    /\ Cardinality(DOMAIN HeapDataFrames(last.data)) = Len(HeapPages)
    /\ Cardinality(Events(last.log, "link")) >= 3

\* thread t is inside allocate_process
Running(t) == threads[t].pc \notin {"idle", "done"}

\* the mutex thread t is spinning on is held, and by whom
Holder(t) ==
    CASE threads[t].pc = "lock_proc" -> locks.proc[threads[t].i]
      [] threads[t].pc = "lock_pid" -> locks.next_pid
      [] OTHER -> 0

Blocked(t) == Holder(t) # 0

\* the slot mutexes thread t holds
HeldSlots(lk, t) == {i \in 1..NPROC : lk.proc[i] = t}

\* every thread that spins waits for a thread that does not
NoDeadlock == \A t \in Threads : Blocked(t) => ~Blocked(Holder(t))

\* a step that takes the NEXT_PID mutex is made by a thread that holds a
\* slot mutex, and a step that takes a slot mutex by a thread that holds
\* no mutex
SlotThenNextPid ==
    \A t \in Threads :
        /\ (locks'.next_pid = t /\ locks.next_pid # t) => HeldSlots(locks, t) # {}
        /\ (HeldSlots(locks', t) \ HeldSlots(locks, t) # {})
              => (locks.next_pid # t /\ HeldSlots(locks, t) = {})

====
